---- MODULE Spec2Model ----
(***************************************************************************)
(* State-machine model of the OCI metrics report web application           *)
(* (src/app.py): the auth resolver, the region client manager, the         *)
(* compartment-name cache, the /api endpoints and the unified fan-out      *)
(* query handler; and of the command line tool (src/generate_report.py):   *)
(* main(), build_mql and the report writer.                                *)
(*                                                                         *)
(* Strings are modelled as sequences of tokens, so that string             *)
(* concatenation is sequence concatenation (\o).  Python None / JSON null  *)
(* is the value None; an absent dictionary key is the value Absent.        *)
(***************************************************************************)
EXTENDS Integers, Sequences, FiniteSets, TLC

VARIABLES
    pc,                 \* position of the request handler being executed
    data,               \* request.json of the request being handled
    regions,            \* local `regions` of api_query_unified
    compartment_ids,    \* local `compartment_ids` of api_query_unified
    ri,                 \* index of the region the outer loop is at
    ci,                 \* index of the compartment the inner loop is at
    client,             \* local `client` of api_query_unified
    results,            \* local `results`
    errors,             \* local `errors`
    response,           \* the HTTP response of the handler
    trace,              \* calls made by the handler: get_client / query_metrics
    region_manager,     \* global _region_manager: None or the manager object
    clients,            \* OCIRegionClientManager._clients: region -> client
    constructed,        \* region -> number of clients constructed for it
    oci_client,         \* global oci_client: None or the shared client
    compartment_cache,  \* global _compartment_cache: id -> compartment dict
    environ,            \* os.environ: the variables the auth resolver reads
    disk,               \* the OCI config file and the files it names
    auth_type,          \* what detect_auth_type returned
    signer_out,         \* how get_signer ended
    calls,              \* the get_client calls made on the manager, in order
    thr,                \* the requests running get_client concurrently
    subscriptions,      \* Identity's region subscriptions: region -> status
    region_calls,       \* list_region_subscriptions calls made so far
    available,          \* what get_available_regions returned last
    hierarchy,          \* Identity's compartments: the listing and its parents
    walk,               \* the get_path computation in progress
    compartments,       \* local `compartments` of list_compartments, then its return
    provider_data,      \* the data points Monitoring holds
    op,                 \* the Metrics Client operation invoked last
    idx,                \* local `idx` of api_query_multiple
    args,               \* the parsed command line of the CLI
    cli_pc,             \* position of main() of the CLI
    cli_trace,          \* client operations main() has called, in order
    cli_results,        \* local `results` of main()
    output_file,        \* the report files written by the CLI run
    exit_status,        \* exit status of the CLI process: Running until it exits
    report_in,          \* what the report writer is given: results, title, args
    report_out,         \* the documents produced from report_in, in order
    clock               \* the wall clock, in seconds

\* the state of the web application
webVars == <<pc, data, regions, compartment_ids, ri, ci, client, results,
             errors, response, trace, oci_client, compartment_cache>>
\* the state of the region client manager
managerVars == <<region_manager, clients, constructed>>
\* the state of the auth resolver
authVars == <<environ, disk, auth_type, signer_out>>
\* the callers of the region client manager
callerVars == <<calls, thr>>

\* the state of the region listing
regionVars == <<subscriptions, region_calls, available>>
\* the state of the compartment path computation
pathVars == <<hierarchy, walk, compartments>>
\* the state of the Metrics Client operations
opVars == <<provider_data, op>>
\* the state of the command line tool
cliVars == <<args, cli_pc, cli_trace, cli_results, output_file, exit_status>>
\* the state the web application and its managers do not touch
\* the state of the report writer
renderVars == <<report_in, report_out, clock>>
otherVars == <<regionVars, pathVars, opVars, idx, cliVars, renderVars>>

vars == <<webVars, managerVars, authVars, callerVars, otherVars>>

-----------------------------------------------------------------------------
(* Bounds of the model *)

\* longest `regions` list of a request body
MaxRegions == 2
\* longest `compartment_ids` list of a request body
MaxComps == 2
\* largest cross product (regions x compartments) of a request
MaxQueries == 4

-----------------------------------------------------------------------------
(* Values *)

None == "None"
Absent == "Absent"

\* nothing has run yet outside the web application and its managers
IdleRegions == subscriptions = None /\ region_calls = 0 /\ available = None
IdlePaths == hierarchy = None /\ walk = None /\ compartments = None
IdleOps == provider_data = None /\ op = None
\* the exit status of a process that has not exited
Running == -1
IdleCli ==
    /\ args = None /\ cli_pc = None /\ cli_trace = <<>>
    /\ cli_results = <<>> /\ output_file = {} /\ exit_status = Running
IdleRender == report_in = None /\ report_out = <<>> /\ clock = 0
IdleOther ==
    IdleRegions /\ IdlePaths /\ IdleOps /\ idx = 0 /\ IdleCli /\ IdleRender

\* region names a request may name
RegionNames == {"us-ashburn-1", "us-phoenix-1"}
\* entries a `regions` list may hold: region names, the empty string, null
RegionEntries == RegionNames \cup {"", None}

TenancyId == "ocid1.tenancy"
\* compartment ids a request may name; only the first is known to Identity
CompartmentIds == {"ocid1.compartment.a", "ocid1.compartment.b"}

\* the sequences over S of length lo..hi
SeqsOf(S, lo, hi) == UNION {[1..n -> S] : n \in lo..hi}

\* bool(x) of Python for the values of the model
Truthy(x) == x \notin {None, ""}

\* concatenation of a sequence of sequences
RECURSIVE Flatten(_)
Flatten(ss) == IF ss = <<>> THEN <<>> ELSE ss[1] \o Flatten(Tail(ss))

-----------------------------------------------------------------------------
(* The auth resolver: detect_auth_type and get_signer *)

\* AuthType
CONFIG_FILE == "config_file"
INSTANCE_PRINCIPAL == "instance_principal"
RESOURCE_PRINCIPAL == "resource_principal"
SECURITY_TOKEN == "security_token"

\* the values the environment variables take in the model
CliAuthValues ==
    {Absent, "", "instance_principal", "INSTANCE_PRINCIPAL", "security_token",
     "Security_Token", "api_key"}
MarkerValues == {Absent, "", "2.2"}
ShellValues == {Absent, "", "true"}

\* os.environ.get(name, default)
EnvGet(env, name, default) ==
    IF env[name] = Absent THEN default ELSE env[name]

\* str.lower() on the values of the model
Lower(v) ==
    CASE v = "INSTANCE_PRINCIPAL" -> "instance_principal"
      [] v = "Security_Token" -> "security_token"
      [] OTHER -> v

\* (mutant) the delegated-token flag is looked at before the marker
detect_auth_type_TokenFirst(env) ==
    LET oci_cli_auth == Lower(EnvGet(env, "OCI_CLI_AUTH", "")) IN
    IF oci_cli_auth = "instance_principal" THEN INSTANCE_PRINCIPAL
    ELSE IF oci_cli_auth = "security_token" THEN SECURITY_TOKEN
    ELSE IF Truthy(EnvGet(env, "OCI_RESOURCE_PRINCIPAL_VERSION", None))
    THEN RESOURCE_PRINCIPAL
    ELSE IF Truthy(EnvGet(env, "OCI_CLI_CLOUD_SHELL", None)) THEN SECURITY_TOKEN
    ELSE CONFIG_FILE

\* detect_auth_type
detect_auth_type(env) ==
    LET oci_cli_auth == Lower(EnvGet(env, "OCI_CLI_AUTH", "")) IN
    IF oci_cli_auth = "instance_principal" THEN INSTANCE_PRINCIPAL
    ELSE IF Truthy(EnvGet(env, "OCI_RESOURCE_PRINCIPAL_VERSION", None))
    THEN RESOURCE_PRINCIPAL
    ELSE IF oci_cli_auth = "security_token" THEN SECURITY_TOKEN
    ELSE IF Truthy(EnvGet(env, "OCI_CLI_CLOUD_SHELL", None)) THEN SECURITY_TOKEN
    ELSE CONFIG_FILE

\* the paths the config file may name
TokenPath == "~/.oci/token"
KeyPath == "~/.oci/key.pem"

\* oci.config.from_file on a loadable config file
FileConfig(d) ==
    [region |-> "us-ashburn-1", tenancy |-> "ocid1.tenancy",
     security_token_file |-> d.security_token_file, key_file |-> d.key_file]

\* config.get(key): None when the profile has no such entry
ConfigGet(config, key) ==
    IF config[key] = Absent THEN None ELSE config[key]

\* os.path.exists(path)
PathExists(d, path) == path \in d.files

\* how a call ends: it raises, or returns the tuple (config, signer)
NoConfig == [region |-> None]
Raised == [raised |-> TRUE, config |-> NoConfig, signer |-> None]
Returned(config, signer) ==
    [raised |-> FALSE, config |-> config, signer |-> signer]
NotCalled == [raised |-> FALSE, config |-> NoConfig, signer |-> "NotCalled"]

\* (mutant) the token file is opened whenever the config names one
TokenFileUsable_Unchecked(d, token_file) == Truthy(token_file)

\* line 95: `token_file and os.path.exists(os.path.expanduser(token_file))`
TokenFileUsable(d, token_file) ==
    Truthy(token_file) /\ PathExists(d, token_file)

\* the ways get_signer(auth_type) can end
get_signer(type, d) ==
    IF type = INSTANCE_PRINCIPAL
    THEN \* the signer is fetched from the instance metadata service
         {Returned([region |-> "us-ashburn-1"],
                   "InstancePrincipalsSecurityTokenSigner"), Raised}
    ELSE IF type = RESOURCE_PRINCIPAL
    THEN {Returned([region |-> "us-ashburn-1"], "ResourcePrincipalsSigner"),
          Raised}
    ELSE IF ~d.config_loadable
    THEN \* oci.config.from_file raises
         {Raised}
    ELSE IF type = SECURITY_TOKEN
    THEN LET config == FileConfig(d)
             token_file == ConfigGet(config, "security_token_file")
             key_file == ConfigGet(config, "key_file")
         IN  IF TokenFileUsable(d, token_file)
             THEN IF token_file \in d.files
                  THEN IF Truthy(key_file) /\ PathExists(d, key_file)
                       THEN {Returned(config, "SecurityTokenSigner")}
                       ELSE \* load_private_key_from_file raises
                            {Raised}
                  ELSE \* open(token_file) raises
                       {Raised}
             ELSE \* fall back to config file auth
                  {Returned(FileConfig(d), None)}
    ELSE {Returned(FileConfig(d), None)}

NoEnviron ==
    [OCI_CLI_AUTH |-> Absent, OCI_RESOURCE_PRINCIPAL_VERSION |-> Absent,
     OCI_CLI_CLOUD_SHELL |-> Absent]
NoDisk == [config_loadable |-> TRUE, security_token_file |-> Absent,
           key_file |-> Absent, files |-> {}]

-----------------------------------------------------------------------------
(* The provider (OCI), as seen through the SDK *)

\* what Identity's get_tenancy / list_compartments answer
TenancyName == "acme"
AllCompartments ==
    << [id |-> "ocid1.compartment.a", name |-> "prod",
        compartment_id |-> TenancyId] >>

\* dimension keys in sorted order (sorted() of the keys)
DimKeyOrder == <<"availabilityDomain", "resourceId">>

\* what Monitoring's summarize_metrics_data answers for a compartment
ProviderResponse(region, cid) ==
    IF cid = "ocid1.compartment.a"
    THEN << [name |-> "CpuUtilization",
             dimensions |-> {<<"resourceId", "i1">>,
                            <<"availabilityDomain", "ad1">>}],
            [name |-> "CpuUtilization", dimensions |-> {}] >>
    ELSE << [name |-> "CpuUtilization",
             dimensions |-> {<<"resourceId", "i2">>}] >>

-----------------------------------------------------------------------------
(* OCIMonitoringClient.query_metrics: the result built from a response *)

\* sorted(metric_data.dimensions.items()): the pairs in key order
SortedItems(dims) ==
    LET ValueOf(k) == (CHOOSE p \in dims : p[1] = k)[2]
        present == SelectSeq(DimKeyOrder, LAMBDA k : \E p \in dims : p[1] = k)
    IN  [i \in 1..Len(present) |-> <<present[i], ValueOf(present[i])>>]

\* ", ".join(f"{k}={v}" for k, v in items)
RECURSIVE JoinItems(_)
JoinItems(items) ==
    IF items = <<>> THEN <<>>
    ELSE <<items[1][1], "=", items[1][2]>>
         \o (IF Len(items) > 1 THEN <<", ">> ELSE <<>>)
         \o JoinItems(Tail(items))

\* " ".join(label_parts): the series name, then "(k=v, ...)" if it has dimensions
SeriesLabel(md) ==
    IF md.dimensions # {}
    THEN <<md.name, " ", "(">> \o JoinItems(SortedItems(md.dimensions)) \o <<")">>
    ELSE <<md.name>>

\* one entry of result["metric_data"]
Series(md) ==
    [name |-> md.name, dimensions |-> md.dimensions, label |-> SeriesLabel(md)]

\* the dictionary query_metrics returns for a provider response
QueryResult(resp) ==
    [metric_data |-> [i \in 1..Len(resp) |-> Series(resp[i])]]

-----------------------------------------------------------------------------
(* The compartment-name cache *)

\* (mutant) the cache is never consulted
get_compartment_name_raw(compartment_id) == compartment_id

\* get_compartment_name: the cached name, or the raw id
get_compartment_name(compartment_id) ==
    IF compartment_id \in DOMAIN compartment_cache
    THEN compartment_cache[compartment_id].name
    ELSE compartment_id

\* the fault: the cache is rebuilt from the listing
PopulateFrom_Rebuilt(cache, comps) ==
    [k \in {comps[i].id : i \in 1..Len(comps)} |->
        LET last == CHOOSE i \in 1..Len(comps) :
                       /\ comps[i].id = k
                       /\ \A j \in i + 1..Len(comps) : comps[j].id # k
        IN  comps[last]]

\* populate_compartment_cache: the cache after storing every listed compartment
RECURSIVE PopulateFrom(_, _)
PopulateFrom(cache, comps) ==
    IF comps = <<>> THEN cache
    ELSE LET comp == comps[1]
             stored == [k \in DOMAIN cache \cup {comp.id} |->
                           IF k = comp.id THEN comp ELSE cache[k]]
         IN  PopulateFrom(stored, Tail(comps))

\* OCIMonitoringClient.list_compartments for the hierarchy of the provider:
\* the tenancy root, then every compartment with its path
ListCompartments ==
    << [id |-> TenancyId, name |-> TenancyName,
        path |-> <<TenancyName, " (root)">>] >>
    \o [i \in 1..Len(AllCompartments) |->
          [id |-> AllCompartments[i].id, name |-> AllCompartments[i].name,
           path |-> <<TenancyName, "/", AllCompartments[i].name>>]]

-----------------------------------------------------------------------------
(* The region client manager *)

\* what oci.config.from_file answers: the base configuration
BaseConfig == [region |-> "us-ashburn-1", tenancy |-> TenancyId]

\* OCIRegionClientManager.__init__: self._default_region
DefaultRegionOf(config) ==
    IF "region" \in DOMAIN config THEN config.region ELSE "us-ashburn-1"

\* OCIRegionClientManager.get_default_region
get_default_region == region_manager.default_region

\* get_client: `region or self._default_region`
RegionOrDefault(region) ==
    IF Truthy(region) THEN region ELSE get_default_region

\* a client object is identified by its region and by how many clients
\* were constructed for that region before it
NoClient == [region |-> None, serial |-> 0]
NewClient(region) == [region |-> region, serial |-> constructed[region] + 1]
Constructing(region) ==
    [constructed EXCEPT ![region] = constructed[region] + 1]

\* the requests that use the manager concurrently, and one before its call
Threads == {"request-1", "request-2"}
IdleThread == [pc |-> "idle", region |-> None, obj |-> NoClient,
               ret |-> NoClient]

\* (mutant) the check is skipped: a client is constructed on every call
NotCached_Always(region) == TRUE

\* (mutant) the check also fails while another request is constructing a
\* client for the region, as it would under a lock or a placeholder entry
NotCached_Exclusive(region) ==
    /\ region \notin DOMAIN clients
    /\ ~\E t \in Threads :
          thr[t].pc \in {"construct", "store"} /\ thr[t].region = region

\* get_client: `region not in self._clients`
NotCached(region) == region \notin DOMAIN clients

\* get_client: self._clients after storing a new client for the region
StoreClient(region, obj) ==
    [r \in DOMAIN clients \cup {region} |->
        IF r = region THEN obj ELSE clients[r]]

-----------------------------------------------------------------------------
(* POST /api/query-unified *)

RequiredFields ==
    <<"compartment_ids", "namespace", "query", "start_time", "end_time">>

\* the required fields missing from the body, in the order they are checked
MissingFields(d) == SelectSeq(RequiredFields, LAMBDA f : f \notin d.fields)

\* data.get('regions', [])
RegionsField(d) == IF d.regions_kind = "absent" THEN <<>> ELSE d.regions

\* (mutant) only null entries are filtered: `if r is not None`
FilterRegions_NotNone(rs) == SelectSeq(rs, LAMBDA r : r # None)

\* [r for r in regions if r]
FilterRegions(rs) == SelectSeq(rs, Truthy)

\* the regions the query runs against: the filtered list, or the default region
EffectiveRegions(d) ==
    IF FilterRegions(RegionsField(d)) = <<>>
    THEN <<get_default_region>>
    ELSE FilterRegions(RegionsField(d))

\* (mutant) a client failure recorded once for the region, not per compartment
ClientFailureErrors_Once(region, cids, e) ==
    << [region |-> region, compartment_id |-> cids[1],
        error |-> <<"Failed to connect to region ", region, ": ", e>>] >>

\* the error entries appended when the client of a region cannot be obtained
ClientFailureErrors(region, cids, e) ==
    [j \in 1..Len(cids) |->
        [region |-> region, compartment_id |-> cids[j],
         error |-> <<"Failed to connect to region ", region, ": ", e>>]]

\* (mutant) no `continue`: the handler falls through to the compartment loop
ClientFailurePc_FallThrough == "query"

\* where the handler goes after recording a client failure: `continue`
ClientFailurePc == "region"

\* (mutant) a query failure that is logged but not recorded
QueryFailureErrors_Swallowed(region, cid, e) == <<>>

\* the error entries appended when query_metrics raises
QueryFailureErrors(region, cid, e) ==
    << [region |-> region, compartment_id |-> cid,
        compartment_name |-> get_compartment_name(cid), error |-> <<e>>] >>

\* metric['label'] = f"{original_label} [{region}] ({compartment_name})"
EnhancedLabel(original_label, region, compartment_name) ==
    original_label \o <<" [", region, "] (", compartment_name, ")">>

\* one series of a result with its source metadata and labels
EnrichSeries(metric, region, cid, compartment_name) ==
    [name |-> metric.name, dimensions |-> metric.dimensions,
     _source |-> [region |-> region, compartment_id |-> cid,
                  compartment_name |-> compartment_name],
     label |-> EnhancedLabel(metric.label, region, compartment_name),
     short_label |-> metric.label]

\* the entry appended to results for a successful query
ResultEntry(region, cid, result) ==
    LET compartment_name == get_compartment_name(cid) IN
    [region |-> region, compartment_id |-> cid,
     compartment_name |-> compartment_name,
     metric_data |->
        [k \in 1..Len(result.metric_data) |->
            EnrichSeries(result.metric_data[k], region, cid, compartment_name)]]

\* the "metadata" object of the response
Metadata ==
    [total_regions |-> Len(regions),
     total_compartments |-> Len(compartment_ids),
     total_queries |-> Len(regions) * Len(compartment_ids),
     successful_queries |-> Len(results),
     failed_queries |-> Len(errors)]

NoResponse == [endpoint |-> None, status |-> 0, json |-> FALSE, error |-> <<>>]

ErrorResponse(endpoint, status, msg) ==
    [endpoint |-> endpoint, status |-> status, json |-> TRUE, error |-> msg]

\* an exception that leaves the view function: the framework's 500 page
UnhandledResponse(endpoint) ==
    [endpoint |-> endpoint, status |-> 500, json |-> FALSE, error |-> <<>>]

\* the exceptions a client construction and a query may raise
ConnectError == "ConfigError"
ServiceError == "ServiceError"

NoManager == [created |-> FALSE, default_region |-> None]

\* the request bodies of the model
UnifiedRequests ==
    [fields : SUBSET {"compartment_ids", "namespace", "query", "start_time",
                      "end_time"},
     regions_kind : {"list"},
     regions : SeqsOf(RegionEntries, 0, MaxRegions),
     compartment_ids : SeqsOf(CompartmentIds, 0, MaxComps),
     dates_ok : BOOLEAN]
    \cup
    [fields : {{"compartment_ids", "namespace", "query", "start_time",
                "end_time"}},
     regions_kind : {"absent", "null"},
     regions : {<<>>},
     compartment_ids : SeqsOf(CompartmentIds, 0, MaxComps),
     dates_ok : BOOLEAN]

\* bodies that differ only in fields the handler never reads are one body
WellFormed(d) ==
    /\ "compartment_ids" \notin d.fields => d.compartment_ids = <<>>
    /\ MissingFields(d) # <<>> =>
          /\ d.regions = <<>>
          /\ d.dates_ok
          /\ d.compartment_ids = <<>>

\* the requests whose cross product is within the bound of the model
InBounds(d) ==
    LET n == IF FilterRegions(RegionsField(d)) = <<>>
             THEN 1 ELSE Len(FilterRegions(RegionsField(d)))
    IN  n * Len(d.compartment_ids) <= MaxQueries

NoData == [fields |-> {}, regions_kind |-> "absent", regions |-> <<>>,
           compartment_ids |-> <<>>, dates_ok |-> TRUE]

Idle == pc = "idle"

\* a request arrives: request.json is read (line 932)
ReceiveUnifiedFrom(bodies) ==
    /\ UNCHANGED <<authVars, callerVars, otherVars>>
    /\ Idle
    /\ \E d \in bodies :
          /\ WellFormed(d)
          /\ InBounds(d)
          /\ data' = d
    /\ pc' = "validate"
    /\ UNCHANGED <<regions, compartment_ids, ri, ci, client, results, errors,
                   response, trace, region_manager, clients, constructed,
                   oci_client, compartment_cache>>

ReceiveUnified == ReceiveUnifiedFrom(UnifiedRequests)

\* lines 934-942: the required fields, then a non-empty compartment_ids
Validate ==
    /\ UNCHANGED <<authVars, callerVars, otherVars>>
    /\ pc = "validate"
    /\ IF MissingFields(data) # <<>>
       THEN /\ response' = ErrorResponse("query-unified", 400,
                               <<MissingFields(data)[1], " is required">>)
            /\ pc' = "done"
            /\ UNCHANGED compartment_ids
       ELSE IF data.compartment_ids = <<>>
       THEN /\ response' = ErrorResponse("query-unified", 400,
                               <<"At least one compartment_id is required">>)
            /\ pc' = "done"
            /\ UNCHANGED compartment_ids
       ELSE /\ compartment_ids' = data.compartment_ids
            /\ pc' = "manager"
            /\ UNCHANGED response
    /\ UNCHANGED <<data, regions, ri, ci, client, results, errors, trace,
                   region_manager, clients, constructed, oci_client,
                   compartment_cache>>

\* line 945, get_region_manager: the manager is created on first use;
\* creating it reads the configuration, which may raise
GetRegionManager ==
    /\ UNCHANGED <<authVars, callerVars, otherVars>>
    /\ pc = "manager"
    /\ \/ /\ region_manager.created
          /\ pc' = "regions"
          /\ UNCHANGED <<region_manager, response>>
       \/ /\ ~region_manager.created
          /\ region_manager' = [created |-> TRUE,
                                default_region |-> DefaultRegionOf(BaseConfig)]
          /\ pc' = "regions"
          /\ UNCHANGED response
       \/ /\ ~region_manager.created
          /\ response' = UnhandledResponse("query-unified")
          /\ pc' = "done"
          /\ UNCHANGED region_manager
    /\ UNCHANGED <<data, regions, compartment_ids, ri, ci, client, results,
                   errors, trace, clients, constructed, oci_client,
                   compartment_cache>>

\* lines 946-960: the regions of the query, then the time range
PrepareQuery ==
    /\ UNCHANGED <<authVars, callerVars, otherVars>>
    /\ pc = "regions"
    /\ IF data.regions_kind = "null"
       THEN \* iterating None raises TypeError, which nothing catches
            /\ response' = UnhandledResponse("query-unified")
            /\ pc' = "done"
            /\ UNCHANGED <<regions, ri>>
       ELSE /\ regions' = EffectiveRegions(data)
            /\ IF data.dates_ok
               THEN /\ pc' = "region"
                    /\ ri' = 1
                    /\ UNCHANGED response
               ELSE /\ response' = ErrorResponse("query-unified", 400,
                                       <<"Invalid date format: ", "ParserError">>)
                    /\ pc' = "done"
                    /\ UNCHANGED ri
    /\ UNCHANGED <<data, compartment_ids, ci, client, results, errors, trace,
                   region_manager, clients, constructed, oci_client,
                   compartment_cache>>

GetClientEvent(region, outcome) ==
    [op |-> "get_client", region |-> region, compartment_id |-> None,
     outcome |-> outcome]

QueryEvent(region, cid, outcome) ==
    [op |-> "query_metrics", region |-> region, compartment_id |-> cid,
     outcome |-> outcome]

\* lines 969-980: the head of the region loop, manager.get_client(region)
RegionStep ==
    /\ UNCHANGED <<authVars, callerVars, otherVars>>
    /\ pc = "region"
    /\ ri <= Len(regions)
    /\ LET region == RegionOrDefault(regions[ri]) IN
       \/ \* the client is cached
          /\ ~NotCached(region)
          /\ client' = clients[region]
          /\ trace' = Append(trace, GetClientEvent(regions[ri], "cached"))
          /\ pc' = "query"
          /\ ci' = 1
          /\ UNCHANGED <<ri, errors, clients, constructed>>
       \/ \* the client is constructed and cached
          /\ NotCached(region)
          /\ clients' = StoreClient(region, NewClient(region))
          /\ constructed' = Constructing(region)
          /\ client' = NewClient(region)
          /\ trace' = Append(trace, GetClientEvent(regions[ri], "created"))
          /\ pc' = "query"
          /\ ci' = 1
          /\ UNCHANGED <<ri, errors>>
       \/ \* constructing the client raises
          /\ NotCached(region)
          /\ errors' = errors \o ClientFailureErrors(regions[ri],
                                    compartment_ids, ConnectError)
          /\ trace' = Append(trace, GetClientEvent(regions[ri], "raise"))
          /\ pc' = ClientFailurePc
          /\ ri' = IF ClientFailurePc = "region" THEN ri + 1 ELSE ri
          /\ ci' = 1
          /\ UNCHANGED <<client, clients, constructed>>
    /\ UNCHANGED <<data, regions, compartment_ids, results, response,
                   region_manager, oci_client, compartment_cache>>

\* (mutant) no try/except around the query: a raising query_metrics leaves
\* the view function and the remaining combinations are never processed
QueryStep_Aborting ==
    /\ UNCHANGED <<authVars, callerVars, otherVars>>
    /\ pc = "query"
    /\ ci <= Len(compartment_ids)
    /\ LET region == regions[ri]
           compartment_id == compartment_ids[ci]
       IN
       \/ /\ results' = Append(results,
                 ResultEntry(region, compartment_id,
                     QueryResult(ProviderResponse(region, compartment_id))))
          /\ trace' = Append(trace, QueryEvent(region, compartment_id, "ok"))
          /\ IF ci < Len(compartment_ids)
             THEN /\ ci' = ci + 1
                  /\ UNCHANGED <<pc, ri>>
             ELSE /\ pc' = "region"
                  /\ ri' = ri + 1
                  /\ UNCHANGED ci
          /\ UNCHANGED response
       \/ /\ trace' = Append(trace, QueryEvent(region, compartment_id, "raise"))
          /\ response' = UnhandledResponse("query-unified")
          /\ pc' = "done"
          /\ UNCHANGED <<results, ri, ci>>
    /\ UNCHANGED <<data, regions, compartment_ids, client, errors,
                   region_manager, clients, constructed, oci_client,
                   compartment_cache>>

\* the fault: the compartments are walked from the end of the list
CompartmentAt_Reversed(j) == compartment_ids[Len(compartment_ids) - j + 1]

\* line 982: `for compartment_id in compartment_ids`, the j-th iteration
CompartmentAt(j) == compartment_ids[j]

\* lines 982-1025: one iteration of the compartment loop
QueryStep ==
    /\ UNCHANGED <<authVars, callerVars, otherVars>>
    /\ pc = "query"
    /\ ci <= Len(compartment_ids)
    /\ LET region == regions[ri]
           compartment_id == CompartmentAt(ci)
       IN
       \/ \* query_metrics returns
          /\ results' = Append(results,
                 ResultEntry(region, compartment_id,
                     QueryResult(ProviderResponse(region, compartment_id))))
          /\ trace' = Append(trace, QueryEvent(region, compartment_id, "ok"))
          /\ UNCHANGED errors
       \/ \* query_metrics raises
          /\ errors' = errors \o QueryFailureErrors(region, compartment_id,
                                                    ServiceError)
          /\ trace' = Append(trace, QueryEvent(region, compartment_id, "raise"))
          /\ UNCHANGED results
    /\ IF ci < Len(compartment_ids)
       THEN /\ ci' = ci + 1
            /\ UNCHANGED <<pc, ri>>
       ELSE /\ pc' = "region"
            /\ ri' = ri + 1
            /\ UNCHANGED ci
    /\ UNCHANGED <<data, regions, compartment_ids, client, response,
                   region_manager, clients, constructed, oci_client,
                   compartment_cache>>

\* lines 1027-1037: the loop is over, the response is built
Respond ==
    /\ UNCHANGED <<authVars, callerVars, otherVars>>
    /\ pc = "region"
    /\ ri > Len(regions)
    /\ response' = [endpoint |-> "query-unified", status |-> 200, json |-> TRUE,
                    error |-> <<>>, results |-> results, errors |-> errors,
                    metadata |-> Metadata]
    /\ pc' = "done"
    /\ UNCHANGED <<data, regions, compartment_ids, ri, ci, client, results,
                   errors, trace, region_manager, clients, constructed, oci_client,
                   compartment_cache>>

-----------------------------------------------------------------------------
(* GET /api/compartments *)

\* lines 696-707: the shared client is obtained (constructed on first use),
\* the compartments are listed and stored in the cache; any exception is
\* answered with a 500
ApiListCompartmentsOf(listings) ==
    /\ UNCHANGED <<authVars, callerVars, otherVars>>
    /\ Idle
    /\ pc' = "done"
    /\ \/ \* get_oci_client raises
          /\ oci_client = None
          /\ response' = ErrorResponse("compartments", 500, <<ConnectError>>)
          /\ UNCHANGED <<oci_client, compartment_cache>>
       \/ \* list_compartments raises
          /\ oci_client' = "client"
          /\ response' = ErrorResponse("compartments", 500, <<ServiceError>>)
          /\ UNCHANGED compartment_cache
       \/ \E listed \in listings :
          /\ oci_client' = "client"
          /\ compartment_cache' = PopulateFrom(compartment_cache, listed)
          /\ response' = [endpoint |-> "compartments", status |-> 200,
                          json |-> TRUE, error |-> <<>>,
                          compartments |-> listed]
    /\ UNCHANGED <<data, regions, compartment_ids, ri, ci, client, results,
                   errors, trace, region_manager, clients, constructed>>

\* the listing of a tenancy whose compartments do not change
ApiListCompartments == ApiListCompartmentsOf({ListCompartments})

-----------------------------------------------------------------------------
(* The response is sent: the handler returns and its locals are gone *)

Return ==
    /\ UNCHANGED <<authVars, callerVars, otherVars>>
    /\ pc = "done"
    /\ pc' = "idle"
    /\ data' = NoData
    /\ regions' = <<>>
    /\ compartment_ids' = <<>>
    /\ ri' = 0
    /\ ci' = 0
    /\ client' = NoClient
    /\ results' = <<>>
    /\ errors' = <<>>
    /\ response' = NoResponse
    /\ trace' = <<>>
    /\ UNCHANGED <<region_manager, clients, constructed, oci_client,
                   compartment_cache>>

-----------------------------------------------------------------------------
(* The web application handling one request at a time *)

Init ==
    /\ pc = "idle"
    /\ data = NoData
    /\ regions = <<>>
    /\ compartment_ids = <<>>
    /\ ri = 0
    /\ ci = 0
    /\ client = NoClient
    /\ results = <<>>
    /\ errors = <<>>
    /\ response = NoResponse
    /\ trace = <<>>
    /\ region_manager = NoManager
    /\ clients = <<>>
    /\ constructed = [r \in RegionNames |-> 0]
    /\ oci_client = None
    /\ compartment_cache = <<>>
    /\ environ = NoEnviron
    /\ disk = NoDisk
    /\ auth_type = None
    /\ signer_out = NotCalled
    /\ calls = <<>>
    /\ thr = [t \in Threads |-> IdleThread]
    /\ IdleOther

Next ==
    \/ ReceiveUnified
    \/ Validate
    \/ GetRegionManager
    \/ PrepareQuery
    \/ RegionStep
    \/ QueryStep
    \/ Respond
    \/ ApiListCompartments
    \/ Return

Spec == Init /\ [][Next]_vars

-----------------------------------------------------------------------------
(* Properties of the unified query *)

\* the handler answered a unified query with the aggregated response
Answered ==
    /\ pc = "done"
    /\ response.endpoint = "query-unified"
    /\ response.status = 200

\* the request as sent: its regions list, and what counts as blank in it
RawRegions == IF data.regions_kind = "list" THEN data.regions ELSE <<>>
IsBlank(x) == x = "" \/ x = None
NonBlankIdx == {i \in 1..Len(RawRegions) : ~IsBlank(RawRegions[i])}
KthNonBlank(k) ==
    CHOOSE i \in NonBlankIdx :
        Cardinality({h \in NonBlankIdx : h <= i}) = k
ExpectedRegions ==
    IF NonBlankIdx = {}
    THEN <<region_manager.default_region>>
    ELSE [k \in 1..Cardinality(NonBlankIdx) |-> RawRegions[KthNonBlank(k)]]
RequestN == IF NonBlankIdx = {} THEN 1 ELSE Cardinality(NonBlankIdx)
RequestM == Len(data.compartment_ids)

\* the calls of the handler, read off its trace
IsClientRaise(e) == e.op = "get_client" /\ e.outcome = "raise"
IsClientOk(e) == e.op = "get_client" /\ e.outcome # "raise"
IsQuery(e) == e.op = "query_metrics"
IsQueryRaise(e) == e.op = "query_metrics" /\ e.outcome = "raise"
IsQueryOk(e) == e.op = "query_metrics" /\ e.outcome = "ok"
CountOf(P(_)) == Cardinality({p \in 1..Len(trace) : P(trace[p])})

\* the <<region, compartment id>> tags of a list of entries
Tags(entries) ==
    [k \in 1..Len(entries) |->
        <<entries[k].region, entries[k].compartment_id>>]

\* the combinations an event of the trace settles
AllOfRegion(region) ==
    [j \in 1..Len(compartment_ids) |-> <<region, compartment_ids[j]>>]
Settled(e) ==
    IF IsClientRaise(e) THEN AllOfRegion(e.region)
    ELSE IF IsQuery(e) THEN << <<e.region, e.compartment_id>> >>
    ELSE <<>>
SettledBy(P(_)) ==
    Flatten([p \in 1..Len(trace) |->
                IF P(trace[p]) THEN Settled(trace[p]) ELSE <<>>])
AnyEvent(e) == TRUE
IsFailure(e) == IsClientRaise(e) \/ IsQueryRaise(e)

\* the cross product of the request, region-major
CrossProduct ==
    Flatten([i \in 1..Len(regions) |-> AllOfRegion(regions[i])])

\* C1: every answered unified query over N regions (after blank filtering
\* and defaulting) and M compartment ids reports successful_queries =
\* len(results), failed_queries = len(errors), total_queries = N*M and
\* successful_queries + failed_queries = total_queries, whatever failed.
C1_CountsAddUp ==
    Answered =>
        LET md == response.metadata IN
        /\ md.successful_queries = Len(response.results)
        /\ md.failed_queries = Len(response.errors)
        /\ md.total_queries = RequestN * RequestM
        /\ md.successful_queries + md.failed_queries = md.total_queries

\* a 2 x 2 query answered with a failed region, a failed query and a result
C1_Witness ==
    /\ Answered
    /\ RequestN = 2
    /\ RequestM = 2
    /\ CountOf(IsClientRaise) = 1
    /\ CountOf(IsQueryRaise) = 1
    /\ Len(response.results) = 1

\* C2 (as claimed): an answered unified query has made exactly N*M calls to
\* query_metrics, also when a region's client could not be obtained.
C2_Original ==
    Answered => CountOf(IsQuery) = RequestN * RequestM

\* C2 (amended): an answered unified query has made exactly M calls to
\* query_metrics for each region whose client was obtained and none for a
\* region whose client could not be obtained: M * (N - failed regions) calls
\* in all, never more than N*M.
C2_CallsPerObtainedClient ==
    Answered =>
        /\ CountOf(IsClientOk) + CountOf(IsClientRaise) = RequestN
        /\ CountOf(IsQuery) = RequestM * CountOf(IsClientOk)
        /\ CountOf(IsQuery) = RequestM * (RequestN - CountOf(IsClientRaise))
        /\ CountOf(IsQuery) <= RequestN * RequestM
        /\ \A p \in 1..Len(trace) :
              IsClientRaise(trace[p]) =>
                  p = Len(trace) \/ trace[p + 1].op = "get_client"

\* a query answered after one region failed and another was queried twice
C2_Witness ==
    /\ Answered
    /\ RequestM = 2
    /\ CountOf(IsClientRaise) = 1
    /\ CountOf(IsClientOk) = 1
    /\ CountOf(IsQuery) = 2

\* C3: once the loop over the combinations has started the handler is never
\* stopped by a failure: it can always take its next step, answers nothing
\* before the loop is over and ends with the aggregated response; by then
\* the events have settled every combination of the cross product exactly
\* once, in order, and the error entries are exactly the failed
\* combinations, one entry each, tagged with their region and compartment.
C3_FailuresAreIsolated ==
    /\ pc \in {"region", "query"} =>
          /\ response = NoResponse
          /\ ENABLED (RegionStep \/ QueryStep \/ Respond)
    /\ (pc = "done" /\ trace # <<>>) => Answered
    /\ Answered =>
          /\ SettledBy(AnyEvent) = CrossProduct
          /\ Tags(response.errors) = SettledBy(IsFailure)
          /\ Len(response.results) + Len(response.errors) = Len(CrossProduct)

\* a failed query followed by a successful one, in an answered query
C3_Witness ==
    /\ Answered
    /\ \E p, q \in 1..Len(trace) :
          /\ p < q
          /\ IsQueryRaise(trace[p])
          /\ IsQueryOk(trace[q])
    /\ \E p, q \in 1..Len(trace) :
          /\ p < q
          /\ IsClientRaise(trace[p])
          /\ IsQuery(trace[q])

\* C4: the step in which get_client raises for a region appends exactly M
\* error entries, one per compartment id in request order, each tagged with
\* that region, appends no result, and leaves the handler at the head of the
\* loop for the next region.
C4_FailedRegionYieldsMErrors ==
    [][ (pc = "region" /\ ri <= Len(regions)
         /\ trace' = Append(trace, GetClientEvent(regions[ri], "raise")))
        =>
        /\ Len(errors') = Len(errors) + Len(compartment_ids)
        /\ SubSeq(errors', 1, Len(errors)) = errors
        /\ \A j \in 1..Len(compartment_ids) :
              /\ errors'[Len(errors) + j].region = regions[ri]
              /\ errors'[Len(errors) + j].compartment_id = compartment_ids[j]
        /\ results' = results
        /\ regions' = regions
        /\ pc' = "region"
        /\ ri' = ri + 1 ]_vars

\* a region failed for two compartments and the next region was queried
C4_Witness ==
    /\ Answered
    /\ Len(compartment_ids) = 2
    /\ Len(trace) >= 2
    /\ IsClientRaise(trace[1])
    /\ IsClientOk(trace[2])
    /\ Len(errors) >= 2
    /\ errors[1].compartment_id # errors[2].compartment_id
    /\ CountOf(IsQueryOk) >= 1

\* C5: while a unified query runs, its regions are the default region of
\* the manager alone when the request's list is absent, empty or holds only
\* blank or null entries, and otherwise exactly the non-blank entries of the
\* list in their order; the clients requested are those of these regions.
C5_RegionsDefaulting ==
    /\ (pc \in {"region", "query"} \/ Answered) => regions = ExpectedRegions
    /\ Answered =>
          LET asked == SelectSeq(trace, LAMBDA e : e.op = "get_client")
          IN  [k \in 1..Len(asked) |-> asked[k].region] = ExpectedRegions

\* a query whose two regions are both blank ran against the default region
C5_Witness ==
    /\ Answered
    /\ data.regions_kind = "list"
    /\ Len(data.regions) = 2
    /\ data.regions[1] # data.regions[2]
    /\ NonBlankIdx = {}
    /\ regions = <<"us-ashburn-1">>
    /\ Len(results) >= 1

\* the cached display name of a compartment, or its id
DisplayName(cid) ==
    IF cid \in DOMAIN compartment_cache
    THEN compartment_cache[cid].name
    ELSE cid

\* how often a token occurs in a label
Occurrences(tok, label) ==
    Cardinality({k \in 1..Len(label) : label[k] = tok})

\* C6: every result entry belongs to a successful query of the trace, and
\* each of its series keeps the label query_metrics produced as short_label,
\* has the label "<short_label> [<region>] (<compartment_name>)" with the
\* suffix applied once, and a _source tag with the region and compartment id
\* of its combination; compartment_name is the cached display name, or the
\* compartment id when the id is not cached.
C6_SeriesLabels ==
    /\ Tags(results) = SettledBy(IsQueryOk)
    /\ \A n \in 1..Len(results) :
          LET e == results[n]
              produced == QueryResult(
                  ProviderResponse(e.region, e.compartment_id)).metric_data
              cname == DisplayName(e.compartment_id)
          IN  /\ e.compartment_name = cname
              /\ Len(e.metric_data) = Len(produced)
              /\ \A k \in 1..Len(e.metric_data) :
                    LET m == e.metric_data[k] IN
                    /\ m.short_label = produced[k].label
                    /\ m.label = m.short_label
                                   \o <<" [", e.region, "] (", cname, ")">>
                    /\ Occurrences(" [", m.label) = 1
                    /\ Occurrences("] (", m.label) = 1
                    /\ m._source.region = e.region
                    /\ m._source.compartment_id = e.compartment_id
                    /\ m._source.compartment_name = cname

\* an answer with two series of a cached compartment, labelled with its
\* name, and a series of an unknown compartment, labelled with its id
C6_Witness ==
    /\ Answered
    /\ \E n \in 1..Len(results) :
          /\ results[n].compartment_id \in DOMAIN compartment_cache
          /\ results[n].compartment_name = "prod"
          /\ Len(results[n].metric_data) = 2
          /\ results[n].metric_data[1].label =
                <<"CpuUtilization", " ", "(", "availabilityDomain", "=", "ad1",
                  ", ", "resourceId", "=", "i1", ")", " [", results[n].region,
                  "] (", "prod", ")">>
    /\ \E n \in 1..Len(results) :
          /\ results[n].compartment_id \notin DOMAIN compartment_cache
          /\ results[n].compartment_name = results[n].compartment_id

-----------------------------------------------------------------------------
(* The auth resolver applied to an environment *)

Environments ==
    [OCI_CLI_AUTH : CliAuthValues,
     OCI_RESOURCE_PRINCIPAL_VERSION : MarkerValues,
     OCI_CLI_CLOUD_SHELL : ShellValues]

Disks ==
    [config_loadable : BOOLEAN,
     security_token_file : {Absent, TokenPath},
     key_file : {Absent, KeyPath},
     files : SUBSET {TokenPath, KeyPath}]

AuthInit ==
    /\ environ \in Environments
    /\ disk \in Disks
    /\ auth_type = None
    /\ signer_out = NotCalled
    /\ pc = "idle"
    /\ data = NoData
    /\ regions = <<>>
    /\ compartment_ids = <<>>
    /\ ri = 0
    /\ ci = 0
    /\ client = NoClient
    /\ results = <<>>
    /\ errors = <<>>
    /\ response = NoResponse
    /\ trace = <<>>
    /\ region_manager = NoManager
    /\ clients = <<>>
    /\ constructed = [r \in RegionNames |-> 0]
    /\ oci_client = None
    /\ compartment_cache = <<>>
    /\ calls = <<>>
    /\ thr = [t \in Threads |-> IdleThread]
    /\ IdleOther

\* OCIMonitoringClient.__init__, lines 144-147: the strategy is detected
DetectAuthType ==
    /\ auth_type = None
    /\ auth_type' = detect_auth_type(environ)
    /\ UNCHANGED <<environ, disk, signer_out>>
    /\ UNCHANGED <<webVars, managerVars, callerVars, otherVars>>

\* OCIMonitoringClient.__init__, line 151: get_signer(auth_type, ...)
GetSigner ==
    /\ auth_type # None
    /\ signer_out = NotCalled
    /\ signer_out' \in get_signer(auth_type, disk)
    /\ UNCHANGED <<environ, disk, auth_type>>
    /\ UNCHANGED <<webVars, managerVars, callerVars, otherVars>>

AuthNext ==
    \/ DetectAuthType
    \/ GetSigner

AuthSpec == AuthInit /\ [][AuthNext]_vars

\* an environment variable is set to a non-empty value
IsSet(name) == environ[name] # Absent /\ environ[name] # ""
\* OCI_CLI_AUTH names a strategy, in any letter case
CliAuthIs(kind) ==
    \/ kind = "instance_principal"
       /\ environ.OCI_CLI_AUTH \in {"instance_principal", "INSTANCE_PRINCIPAL"}
    \/ kind = "security_token"
       /\ environ.OCI_CLI_AUTH \in {"security_token", "Security_Token"}

\* C7: detect_auth_type returns one strategy by fixed precedence:
\* INSTANCE_PRINCIPAL if OCI_CLI_AUTH is instance_principal in any case;
\* else RESOURCE_PRINCIPAL if OCI_RESOURCE_PRINCIPAL_VERSION is set
\* non-empty; else SECURITY_TOKEN if OCI_CLI_AUTH is security_token or
\* OCI_CLI_CLOUD_SHELL is set non-empty; else CONFIG_FILE.
C7_AuthPrecedence ==
    auth_type # None =>
        /\ auth_type \in {CONFIG_FILE, INSTANCE_PRINCIPAL, RESOURCE_PRINCIPAL,
                          SECURITY_TOKEN}
        /\ auth_type = INSTANCE_PRINCIPAL <=> CliAuthIs("instance_principal")
        /\ auth_type = RESOURCE_PRINCIPAL <=>
              /\ ~CliAuthIs("instance_principal")
              /\ IsSet("OCI_RESOURCE_PRINCIPAL_VERSION")
        /\ auth_type = SECURITY_TOKEN <=>
              /\ ~CliAuthIs("instance_principal")
              /\ ~IsSet("OCI_RESOURCE_PRINCIPAL_VERSION")
              /\ CliAuthIs("security_token") \/ IsSet("OCI_CLI_CLOUD_SHELL")
        /\ auth_type = CONFIG_FILE <=>
              /\ ~CliAuthIs("instance_principal")
              /\ ~IsSet("OCI_RESOURCE_PRINCIPAL_VERSION")
              /\ ~CliAuthIs("security_token")
              /\ ~IsSet("OCI_CLI_CLOUD_SHELL")

\* the resource-principal marker wins over an explicit security_token flag
C7_Witness ==
    /\ environ.OCI_CLI_AUTH = "Security_Token"
    /\ environ.OCI_RESOURCE_PRINCIPAL_VERSION = "2.2"
    /\ environ.OCI_CLI_CLOUD_SHELL = "true"
    /\ auth_type = RESOURCE_PRINCIPAL

\* the token file, or the key file, named by the config is not on disk
TokenFileMissing ==
    disk.security_token_file = Absent \/ disk.security_token_file \notin disk.files
KeyFileMissing ==
    disk.key_file = Absent \/ disk.key_file \notin disk.files
\* get_signer ran in delegated-token mode on a loadable config file
TokenModeRan ==
    /\ auth_type = SECURITY_TOKEN
    /\ signer_out # NotCalled
    /\ disk.config_loadable
\* what get_signer returns in static config file mode
ConfigFileResult == Returned(FileConfig(disk), None)

\* C8 (as claimed): in delegated-token mode, if the token file or the key
\* file is missing, get_signer does not raise and returns the config-file
\* configuration with no signer.
C8_Original ==
    (TokenModeRan /\ (TokenFileMissing \/ KeyFileMissing)) =>
        signer_out = ConfigFileResult

\* C8 (amended): in delegated-token mode on a loadable config file, if the
\* token file is missing get_signer does not raise and returns the
\* config-file configuration with no signer, whether or not the key file
\* exists; if the token file exists and the key file is missing, get_signer
\* raises.
C8_FallbackOnMissingToken ==
    /\ (TokenModeRan /\ TokenFileMissing) => signer_out = ConfigFileResult
    /\ (TokenModeRan /\ ~TokenFileMissing /\ KeyFileMissing) =>
          signer_out.raised

\* the config names a token file that is not on disk: the fallback is taken
C8_Witness ==
    /\ TokenModeRan
    /\ disk.security_token_file = TokenPath
    /\ TokenPath \notin disk.files
    /\ KeyFileMissing
    /\ signer_out = ConfigFileResult
    /\ ~signer_out.raised

-----------------------------------------------------------------------------
(* One region client manager, called sequentially *)

\* the number of get_client calls of a run
MaxCalls == 4

\* the manager get_region_manager creates
NewManager ==
    [created |-> TRUE, default_region |-> DefaultRegionOf(BaseConfig)]

IdleWeb ==
    /\ pc = "idle"
    /\ data = NoData
    /\ regions = <<>>
    /\ compartment_ids = <<>>
    /\ ri = 0
    /\ ci = 0
    /\ client = NoClient
    /\ results = <<>>
    /\ errors = <<>>
    /\ response = NoResponse
    /\ trace = <<>>
    /\ oci_client = None
    /\ compartment_cache = <<>>

NoAuth ==
    /\ environ = NoEnviron
    /\ disk = NoDisk
    /\ auth_type = None
    /\ signer_out = NotCalled

ManagerInit ==
    /\ region_manager = NewManager
    /\ clients = <<>>
    /\ constructed = [r \in RegionNames |-> 0]
    /\ calls = <<>>
    /\ thr = [t \in Threads |-> IdleThread]
    /\ IdleOther
    /\ IdleWeb
    /\ NoAuth

Call(arg, outcome, obj) == [arg |-> arg, outcome |-> outcome, client |-> obj]

\* the fault: the failed region is remembered with no client
AfterFailure_Cached(region) == StoreClient(region, NoClient)

\* line 579: the constructor raised, the assignment to _clients never ran
AfterFailure(region) == clients

\* get_client(region), lines 575-585, run from call to return
GetClient ==
    /\ Len(calls) < MaxCalls
    /\ \E arg \in RegionNames \cup {None} :
          LET region == RegionOrDefault(arg) IN
          \/ \* the region is cached: its client is returned
             /\ ~NotCached(region)
             /\ calls' = Append(calls, Call(arg, "cached", clients[region]))
             /\ UNCHANGED <<clients, constructed>>
          \/ \* a client is constructed, stored and returned
             /\ NotCached(region)
             /\ clients' = StoreClient(region, NewClient(region))
             /\ constructed' = Constructing(region)
             /\ calls' = Append(calls, Call(arg, "created", NewClient(region)))
          \/ \* the construction raises: nothing is stored
             /\ NotCached(region)
             /\ calls' = Append(calls, Call(arg, "raise", NoClient))
             /\ clients' = AfterFailure(region)
             /\ UNCHANGED constructed
    /\ UNCHANGED <<region_manager, thr>>
    /\ UNCHANGED <<webVars, authVars, otherVars>>

ManagerNext == GetClient

ManagerSpec == ManagerInit /\ [][ManagerNext]_vars

\* the region a call is about: the default region when none is given
RegionOfCall(c) ==
    IF c.arg = None THEN region_manager.default_region ELSE c.arg
\* the earlier calls for the same region that returned a client
EarlierReturns(k) ==
    {h \in 1..(k - 1) :
        /\ RegionOfCall(calls[h]) = RegionOfCall(calls[k])
        /\ calls[h].outcome # "raise"}

\* C9: in every sequence of get_client calls, a call for a region that has
\* returned no client yet constructs one (and returns it unless the
\* construction raises); every call after that returns that same client and
\* constructs nothing, so no region ever has a second client; a call with no
\* region counts as a call for the default region.
C9_CreateOnceThenReuse ==
    /\ \A k \in 1..Len(calls) :
          /\ EarlierReturns(k) = {} => calls[k].outcome \in {"created", "raise"}
          /\ EarlierReturns(k) # {} =>
                /\ calls[k].outcome = "cached"
                /\ \A h \in EarlierReturns(k) : calls[k].client = calls[h].client
          /\ calls[k].outcome # "raise" =>
                /\ calls[k].client # NoClient
                /\ calls[k].client.region = RegionOfCall(calls[k])
    /\ \A r \in RegionNames :
          /\ constructed[r] <= 1
          /\ constructed[r] =
                Cardinality({k \in 1..Len(calls) :
                    RegionOfCall(calls[k]) = r /\ calls[k].outcome = "created"})
          /\ r \in DOMAIN clients <=> constructed[r] = 1

\* a client created by a call without region, after a failed attempt, is
\* the one later calls for the default region get
C9_Witness ==
    /\ Len(calls) = 4
    /\ calls[1].arg = None /\ calls[1].outcome = "raise"
    /\ calls[2].arg = None /\ calls[2].outcome = "created"
    /\ calls[3].arg = "us-ashburn-1" /\ calls[3].outcome = "cached"
    /\ calls[4].arg = None /\ calls[4].outcome = "cached"
    /\ calls[3].client = calls[2].client
    /\ calls[4].client = calls[2].client

-----------------------------------------------------------------------------
(* One region client manager, called by two requests at once *)

ConcInit ==
    /\ region_manager = NewManager
    /\ clients = <<>>
    /\ constructed = [r \in RegionNames |-> 0]
    /\ calls = <<>>
    /\ thr = [t \in Threads |-> IdleThread]
    /\ IdleOther
    /\ IdleWeb
    /\ NoAuth

\* line 577: the request calls get_client; `region or self._default_region`
Enter(t) ==
    /\ thr[t].pc = "idle"
    /\ \E arg \in RegionNames \cup {None} :
          thr' = [thr EXCEPT ![t].pc = "check",
                             ![t].region = RegionOrDefault(arg)]
    /\ UNCHANGED <<region_manager, clients, constructed, calls>>
    /\ UNCHANGED <<webVars, authVars, otherVars>>

\* line 578: the region is not in self._clients
CheckMiss(t) ==
    /\ thr[t].pc = "check"
    /\ NotCached(thr[t].region)
    /\ thr' = [thr EXCEPT ![t].pc = "construct"]
    /\ UNCHANGED <<region_manager, clients, constructed, calls>>
    /\ UNCHANGED <<webVars, authVars, otherVars>>

\* line 578: the region is in self._clients
CheckHit(t) ==
    /\ thr[t].pc = "check"
    /\ ~NotCached(thr[t].region)
    /\ thr' = [thr EXCEPT ![t].pc = "read"]
    /\ UNCHANGED <<region_manager, clients, constructed, calls>>
    /\ UNCHANGED <<webVars, authVars, otherVars>>

\* lines 579-584, right-hand side: OCIMonitoringClient(...) returns
Construct(t) ==
    /\ thr[t].pc = "construct"
    /\ thr' = [thr EXCEPT ![t].pc = "store",
                          ![t].obj = NewClient(thr[t].region)]
    /\ constructed' = Constructing(thr[t].region)
    /\ UNCHANGED <<region_manager, clients, calls>>
    /\ UNCHANGED <<webVars, authVars, otherVars>>

\* lines 579-584, right-hand side: OCIMonitoringClient(...) raises
ConstructRaises(t) ==
    /\ thr[t].pc = "construct"
    /\ thr' = [thr EXCEPT ![t].pc = "raised"]
    /\ UNCHANGED <<region_manager, clients, constructed, calls>>
    /\ UNCHANGED <<webVars, authVars, otherVars>>

\* line 579, assignment: self._clients[region] = the new client
Store(t) ==
    /\ thr[t].pc = "store"
    /\ clients' = StoreClient(thr[t].region, thr[t].obj)
    /\ thr' = [thr EXCEPT ![t].pc = "read"]
    /\ UNCHANGED <<region_manager, constructed, calls>>
    /\ UNCHANGED <<webVars, authVars, otherVars>>

\* line 585: return self._clients[region]
ReadBack(t) ==
    /\ thr[t].pc = "read"
    /\ thr' = [thr EXCEPT ![t].pc = "returned",
                          ![t].ret = clients[thr[t].region]]
    /\ UNCHANGED <<region_manager, clients, constructed, calls>>
    /\ UNCHANGED <<webVars, authVars, otherVars>>

ConcNext ==
    \E t \in Threads :
        \/ Enter(t)
        \/ CheckMiss(t)
        \/ CheckHit(t)
        \/ Construct(t)
        \/ ConstructRaises(t)
        \/ Store(t)
        \/ ReadBack(t)

ConcSpec == ConcInit /\ [][ConcNext]_vars

\* the requests that have constructed a client for a region
Constructors(r) ==
    {t \in Threads : thr[t].obj # NoClient /\ thr[t].region = r}

\* C10: with concurrent requests the lazy creation is a check-then-act race:
\* while one request is between its check and its store for a region, a
\* second request checking the same region still finds it absent and goes on
\* to construct; each request that found the region absent constructs its
\* own client, so two requests construct two distinct clients for one
\* region, and a request returns a client one of them constructed.
C10_LazyCreationRace ==
    /\ \A t, u \in Threads :
          (/\ t # u
           /\ thr[t].pc \in {"construct", "store"}
           /\ thr[u].pc = "check"
           /\ thr[u].region = thr[t].region
           /\ thr[u].region \notin DOMAIN clients)
          => ENABLED CheckMiss(u)
    /\ \A r \in RegionNames :
          /\ constructed[r] = Cardinality(Constructors(r))
          /\ \A t, u \in Constructors(r) : t # u => thr[t].obj # thr[u].obj
    /\ \A t \in Threads :
          thr[t].pc = "returned" =>
              \E u \in Constructors(thr[t].region) : thr[t].ret = thr[u].obj

\* two requests for the same region each constructed a client and hold
\* different client objects
C10_Witness ==
    /\ thr["request-1"].pc = "returned"
    /\ thr["request-2"].pc = "returned"
    /\ thr["request-1"].region = thr["request-2"].region
    /\ constructed[thr["request-1"].region] = 2
    /\ thr["request-1"].ret # thr["request-2"].ret

-----------------------------------------------------------------------------
(* sorted(): Python's order on the strings the model sorts *)

\* the strings the model sorts, in Python's string order (by code point)
StrOrder == <<"CpuUtilization", "MemoryUtilization", "ad1", "availabilityDomain",
              "eu-frankfurt-1", "frontend", "i1", "oci_computeagent", "oci_vcn",
              "resourceId", "us-ashburn-1", "us-phoenix-1">>

StrRank(s) == CHOOSE i \in 1..Len(StrOrder) : StrOrder[i] = s

\* sorted(seq, key=...): rank is the function element -> position of its key;
\* the sort is stable, as Python's is
RECURSIVE Sorted(_, _)
Sorted(seq, rank) ==
    IF seq = <<>> THEN <<>>
    ELSE LET x == Head(seq)
             rest == Sorted(Tail(seq), rank)
             k == Cardinality({i \in 1..Len(rest) : rank[rest[i]] < rank[x]})
         IN  SubSeq(rest, 1, k) \o <<x>> \o SubSeq(rest, k + 1, Len(rest))

\* sorted(list(s)) of a set of strings
SortedSet(S) == SelectSeq(StrOrder, LAMBDA x : x \in S)

\* the set of the elements of a sequence
Range(seq) == {seq[i] : i \in 1..Len(seq)}

-----------------------------------------------------------------------------
(* OCIRegionClientManager.get_available_regions *)

\* get_available_regions calls made in a run of the model
MaxListings == 3

\* the regions a tenancy can subscribe to
SubscribableRegions == RegionNames \cup {"eu-frankfurt-1"}
RegionStatuses == {"READY", "IN_PROGRESS"}
NotSubscribed == "absent"

\* the order Identity lists the subscriptions in: not sorted by name
ListingOrder == <<"us-phoenix-1", "eu-frankfurt-1", "us-ashburn-1">>

\* identity_client.list_region_subscriptions(...).data
list_region_subscriptions(subs) ==
    LET subscribed == SelectSeq(ListingOrder, LAMBDA r : subs[r] # NotSubscribed)
    IN  [i \in 1..Len(subscribed) |->
            [region_name |-> subscribed[i], status |-> subs[subscribed[i]]]]

\* the fault: every subscription is returned, whatever its status
ReadyRegions_AnyStatus(listing) ==
    Sorted([i \in 1..Len(listing) |-> listing[i].region_name],
           [r \in SubscribableRegions |-> StrRank(r)])

\* line 605: sorted([r.region_name for r in regions if r.status == "READY"])
ReadyRegions(listing) ==
    LET ready == SelectSeq(listing, LAMBDA r : r.status = "READY")
    IN  Sorted([i \in 1..Len(ready) |-> ready[i].region_name],
               [r \in SubscribableRegions |-> StrRank(r)])

\* lines 606-609: the except branch returns [self._default_region]
FallbackRegions == <<get_default_region>>

\* how a call of get_available_regions ended: n counts the calls
Available(n, regions_out, how) == [n |-> n, regions |-> regions_out, how |-> how]
NeverListed == Available(0, <<>>, "never")

\* the manager as get_region_manager leaves it, with nothing cached
IdleManager ==
    /\ region_manager = NewManager
    /\ clients = <<>>
    /\ constructed = [r \in RegionNames |-> 0]
    /\ calls = <<>>
    /\ thr = [t \in Threads |-> IdleThread]

RegionsInit ==
    /\ subscriptions \in [SubscribableRegions -> RegionStatuses \cup {NotSubscribed}]
    /\ region_calls = 0
    /\ available = NeverListed
    /\ IdleManager
    /\ IdleWeb
    /\ NoAuth
    /\ IdlePaths /\ IdleOps /\ idx = 0 /\ IdleCli /\ IdleRender

\* the tenancy's subscriptions change between two calls
ChangeSubscription ==
    /\ \E r \in SubscribableRegions, st \in RegionStatuses \cup {NotSubscribed} :
          /\ subscriptions[r] # st
          /\ subscriptions' = [subscriptions EXCEPT ![r] = st]
    /\ UNCHANGED <<region_calls, available>>

\* get_available_regions(), lines 591-610, run from call to return
GetAvailableRegions ==
    /\ available.n < MaxListings
    /\ \/ \* lines 594-599: building the identity client raises
          /\ available' = Available(available.n + 1, FallbackRegions, "fallback")
          /\ UNCHANGED region_calls
       \/ \* lines 601-603: list_region_subscriptions raises
          /\ region_calls' = region_calls + 1
          /\ available' = Available(available.n + 1, FallbackRegions, "fallback")
       \/ \* lines 601-605: the subscriptions are listed and returned
          /\ region_calls' = region_calls + 1
          /\ available' = Available(available.n + 1,
                              ReadyRegions(list_region_subscriptions(subscriptions)),
                              "listed")
    /\ UNCHANGED subscriptions

RegionsNext ==
    /\ \/ ChangeSubscription
       \/ GetAvailableRegions
    /\ UNCHANGED <<webVars, managerVars, authVars, callerVars>>
    /\ UNCHANGED <<pathVars, opVars, idx, cliVars, renderVars>>

RegionsSpec == RegionsInit /\ [][RegionsNext]_vars

\* C11: every call of get_available_regions returns a list: when the
\* subscriptions were listed, the names of the regions whose status is READY
\* at the time of the call, each once, in ascending order; otherwise the list
\* holding only the default region.  A call that builds the identity client
\* lists the subscriptions anew: no call answers from an earlier listing.
C11_AvailableRegions ==
    [][available'.n # available.n =>
        LET out == available'.regions IN
        /\ available'.n = available.n + 1
        /\ available'.how \in {"listed", "fallback"}
        /\ available'.how = "listed" =>
              /\ region_calls' = region_calls + 1
              /\ Range(out) = {r \in SubscribableRegions : subscriptions[r] = "READY"}
              /\ \A i, j \in 1..Len(out) : i < j => StrRank(out[i]) < StrRank(out[j])
        /\ available'.how = "fallback" =>
              out = <<"us-ashburn-1">>]_vars

\* a second call, after the subscriptions changed, lists two READY regions
\* that Identity returned out of order next to one that is not READY
C11_Witness ==
    /\ available.n = 2
    /\ available.how = "listed"
    /\ region_calls = 2
    /\ available.regions = <<"eu-frankfurt-1", "us-phoenix-1">>
    /\ subscriptions["us-ashburn-1"] = "IN_PROGRESS"

-----------------------------------------------------------------------------
(* OCIMonitoringClient.list_compartments: the paths *)

\* compartments Identity holds below the tenancy
MaxCompartments == 3

\* within this section a compartment id is a number; the tenancy is RootId
RootId == 0
CompartmentIdsBelow == 1..MaxCompartments
\* comp.name of each compartment
CompartmentNames == <<"dev", "prod", "qa", "sandbox", "test">>
Unknown == "Unknown"

\* what Identity holds: comp.compartment_id of each compartment (any relation
\* at all, cycles included) and the compartments the filtered listing returns
Hierarchies ==
    [parent : [CompartmentIdsBelow -> {RootId} \cup CompartmentIdsBelow],
     listed : SUBSET CompartmentIdsBelow]

\* lines 231-237: all_compartments, in the order Identity lists them
all_compartments(h) ==
    LET ids == SelectSeq([i \in 1..MaxCompartments |-> i], LAMBDA i : i \in h.listed)
    IN  [k \in 1..Len(ids) |->
            [id |-> ids[k], name |-> CompartmentNames[ids[k]],
             compartment_id |-> h.parent[ids[k]]]]

\* lines 240-242 and compartment_map.get(comp_id, "Unknown")
compartment_map_get(h, comp_id) ==
    IF comp_id = RootId THEN TenancyName
    ELSE IF comp_id \in h.listed THEN CompartmentNames[comp_id]
    ELSE Unknown

\* the fault: the visited set is never consulted
Revisited_Never(comp_id, visited) == FALSE

\* line 248: if comp_id in visited
Revisited(comp_id, visited) == comp_id \in visited

\* the fault: the root's name is left out of the path
RootedPath_NoRoot(h, comp_id) == <<compartment_map_get(h, comp_id)>>

\* line 254: f"{tenancy.name}/{compartment_map.get(comp_id, 'Unknown')}"
RootedPath(h, comp_id) == <<TenancyName, "/", compartment_map_get(h, comp_id)>>

\* line 255, once per pending call, innermost first: f"{...}/{comp.name}"
RECURSIVE Unwind(_, _)
Unwind(path, frames) ==
    IF frames = <<>> THEN path
    ELSE Unwind(path \o <<"/", CompartmentNames[frames[Len(frames)]]>>,
                SubSeq(frames, 1, Len(frames) - 1))

\* lines 224-228: the entry of the tenancy
RootEntry ==
    [id |-> RootId, name |-> TenancyName, path |-> <<TenancyName, " (root)">>]

\* the order of Python on two path strings, token by token
TokenOrder == <<" (root)", "/", Unknown, TenancyName>> \o CompartmentNames
TokenRank(t) == CHOOSE i \in 1..Len(TokenOrder) : TokenOrder[i] = t
RECURSIVE PathLess(_, _)
PathLess(p, q) ==
    IF q = <<>> THEN FALSE
    ELSE IF p = <<>> THEN TRUE
    ELSE IF Head(p) = Head(q) THEN PathLess(Tail(p), Tail(q))
    ELSE TokenRank(Head(p)) < TokenRank(Head(q))

\* line 268: sorted(compartments, key=lambda x: x["path"])
SortedByPath(comps) ==
    Sorted(comps, [d \in Range(comps) |->
                      Cardinality({e \in Range(comps) : PathLess(e.path, d.path)})])

\* the position of list_compartments and of the get_path call it is in
Walk(phase, k, cur, visited, frames, called) ==
    [phase |-> phase, k |-> k, cur |-> cur, visited |-> visited,
     frames |-> frames, called |-> called]

\* nothing is known of Identity's compartments before the listing
NoHierarchy == [parent |-> <<>>, listed |-> {}]

PathInit ==
    /\ hierarchy = NoHierarchy
    /\ walk = Walk("call", 1, RootId, {}, <<>>, <<>>)
    /\ compartments = <<>>
    /\ IdleManager
    /\ IdleWeb
    /\ NoAuth
    /\ IdleRegions /\ IdleOps /\ idx = 0 /\ IdleCli /\ IdleRender

\* lines 223-242: get_tenancy and the listing answer; the tenancy's entry is
\* appended and the name map is built
ListAll ==
    /\ walk.phase = "call"
    /\ hierarchy' \in Hierarchies
    /\ walk' = [walk EXCEPT !.phase = "loop"]
    /\ compartments' = <<RootEntry>>

\* lines 257-261: get_path(comp.id) is called for the next listed compartment
StartPath ==
    /\ walk.phase = "loop"
    /\ walk.k <= Len(all_compartments(hierarchy))
    /\ walk' = Walk("get_path", walk.k, all_compartments(hierarchy)[walk.k].id,
                    {}, <<>>, <<>>)
    /\ UNCHANGED <<hierarchy, compartments>>

\* lines 257-262: the call returned `path`; the entry is appended
PathFound(path, visited, called) ==
    LET comp == all_compartments(hierarchy)[walk.k] IN
    /\ compartments' = Append(compartments,
                          [id |-> comp.id, name |-> comp.name, path |-> path])
    /\ walk' = Walk("loop", walk.k + 1, walk.cur, visited, walk.frames, called)

\* lines 245-255: one call of get_path(comp_id, visited)
GetPath ==
    /\ walk.phase = "get_path"
    /\ LET comp_id == walk.cur
           called == Append(walk.called, comp_id)
           visited == walk.visited \cup {comp_id}
       IN  IF Revisited(comp_id, walk.visited)
           THEN \* lines 248-249: the name alone is returned
                PathFound(Unwind(<<compartment_map_get(hierarchy, comp_id)>>,
                                 walk.frames),
                          walk.visited, called)
           ELSE IF \/ comp_id \notin hierarchy.listed
                   \/ hierarchy.parent[comp_id] = RootId
           THEN \* lines 252-254: not listed, or a child of the tenancy
                PathFound(Unwind(RootedPath(hierarchy, comp_id), walk.frames),
                          visited, called)
           ELSE \* line 255: the parent's path is asked for first
                /\ walk' = Walk("get_path", walk.k, hierarchy.parent[comp_id],
                                visited, Append(walk.frames, comp_id), called)
                /\ UNCHANGED compartments
    /\ UNCHANGED hierarchy

\* line 268: the sorted list is returned
ReturnCompartments ==
    /\ walk.phase = "loop"
    /\ walk.k > Len(all_compartments(hierarchy))
    /\ walk' = [walk EXCEPT !.phase = "returned"]
    /\ compartments' = SortedByPath(compartments)
    /\ UNCHANGED hierarchy

PathNext ==
    /\ \/ ListAll
       \/ StartPath
       \/ GetPath
       \/ ReturnCompartments
    /\ UNCHANGED <<webVars, managerVars, authVars, callerVars>>
    /\ UNCHANGED <<regionVars, opVars, idx, cliVars, renderVars>>

PathSpec == PathInit /\ [][PathNext]_vars

\* the compartment's parents lead to the tenancy through listed compartments
RECURSIVE LeadsToRoot(_, _)
LeadsToRoot(c, n) ==
    \/ c = RootId
    \/ n > 0 /\ c \in hierarchy.listed /\ LeadsToRoot(hierarchy.parent[c], n - 1)

\* the names of the compartment's ancestors and its own, the tenancy first
RECURSIVE AncestorNames(_)
AncestorNames(c) ==
    IF c = RootId THEN <<TenancyName>>
    ELSE AncestorNames(hierarchy.parent[c]) \o <<"/", CompartmentNames[c]>>

\* C12: in the list list_compartments builds and returns, the path of every
\* compartment whose parents lead to the tenancy (no cycle on the way) is the
\* tenancy's name, then the names of its ancestors from the top down, then
\* its own name, joined by "/".
C12_PathsAreAncestorNames ==
    \A i \in 1..Len(compartments) :
        LET d == compartments[i] IN
        d.id # RootId /\ LeadsToRoot(d.id, MaxCompartments)
            => d.path = AncestorNames(d.id)

\* the returned list holds a compartment three levels below the tenancy
C12_Witness ==
    /\ walk.phase = "returned"
    /\ \E i \in 1..Len(compartments) :
          /\ compartments[i].id # RootId
          /\ LeadsToRoot(compartments[i].id, MaxCompartments)
          /\ Len(compartments[i].path) = 7

\* C13: a path computation makes at most one get_path call more than there
\* are listed compartments (every step of the walk is one more call, so the
\* walk is finite whatever the parent relation, cycles included) and expands
\* no compartment twice; when a call reaches a compartment already visited,
\* that call is the last one and the path is that compartment's name
\* followed by the names of the pending calls; and a walk in progress can
\* always take its next step.
C13_PathWalkTerminates ==
    LET called == walk.called
        n == Len(called)
    IN  /\ n <= Cardinality(hierarchy.listed) + 1
        /\ \A i, j \in 1..n : i < j /\ called[i] = called[j] =>
              /\ j = n
              /\ walk.phase \in {"loop", "returned"}
              /\ \E k \in 1..Len(compartments) :
                    /\ compartments[k].id = called[1]
                    /\ compartments[k].path =
                          Unwind(<<CompartmentNames[called[n]]>>, walk.frames)
        /\ walk.phase = "get_path" => ENABLED GetPath

\* a walk around a cycle of three compartments has ended at the compartment
\* it started from
C13_Witness ==
    /\ walk.phase = "loop"
    /\ Len(walk.called) = 4
    /\ walk.called[1] = walk.called[4]
    /\ Cardinality(walk.visited) = 3

-----------------------------------------------------------------------------
(* OCIMonitoringClient: the operations, each run from call to return *)

\* data points in a response of Monitoring's list_metrics
MaxPoints == 3

MetricNames == {"CpuUtilization", "MemoryUtilization"}
\* metric.dimensions: a set of <<key, value>> pairs; the empty set stands for
\* both None and {} (the code tests only `if metric.dimensions`)
DimensionDicts ==
    {{}, {<<"resourceId", "i1">>}, {<<"availabilityDomain", "ad1">>},
     {<<"resourceId", "i1">>, <<"availabilityDomain", "ad1">>}}
DimKeys(dims) == {p[1] : p \in dims}

\* a data point of list_metrics: name, namespace, resource_group, dimensions
MetricPoint(name, dims) ==
    [name |-> name,
     namespace |-> IF name = "CpuUtilization" THEN "oci_computeagent" ELSE "oci_vcn",
     resource_group |-> IF name = "CpuUtilization" THEN None ELSE "frontend",
     dimensions |-> dims]
MetricPoints == {MetricPoint(n, d) : n \in MetricNames, d \in DimensionDicts}

\* lines 288-291: sorted(list(namespaces))
list_metric_namespaces(resp) ==
    SortedSet({resp[i].namespace : i \in 1..Len(resp)})

\* lines 323-324: the names in the order the dict first sees them
RECURSIVE FirstSeen(_, _)
FirstSeen(resp, seen) ==
    IF resp = <<>> THEN <<>>
    ELSE IF Head(resp).name \in seen THEN FirstSeen(Tail(resp), seen)
    ELSE <<Head(resp).name>>
         \o FirstSeen(Tail(resp), seen \cup {Head(resp).name})

\* the fault: only the data point that creates the entry gives its keys
MergedKeys_FirstOnly(resp, name) ==
    LET first == CHOOSE i \in 1..Len(resp) :
                    /\ resp[i].name = name
                    /\ \A j \in 1..(i - 1) : resp[j].name # name
    IN  DimKeys(resp[first].dimensions)

\* lines 332-333: every data point of the name updates the set with its keys
MergedKeys(resp, name) ==
    UNION {DimKeys(resp[i].dimensions) :
              i \in {j \in 1..Len(resp) : resp[j].name = name}}

\* lines 322-345: one dict entry per name, then the sorted list of entries
list_metrics(resp) ==
    LET names == FirstSeen(resp, {})
        First(name) == resp[CHOOSE i \in 1..Len(resp) :
                                   /\ resp[i].name = name
                                   /\ \A j \in 1..(i - 1) : resp[j].name # name]
        result == [k \in 1..Len(names) |->
                     [name |-> names[k],
                      namespace |-> First(names[k]).namespace,
                      dimensions |-> SortedSet(MergedKeys(resp, names[k])),
                      resource_group |-> First(names[k]).resource_group]]
    IN  Sorted(result, [d \in Range(result) |-> StrRank(d.name)])

\* lines 374-379: the truthy resource groups, sorted
list_resource_groups(resp) ==
    SortedSet({resp[i].resource_group : i \in 1..Len(resp)} \ {None})

\* lines 410-419: key -> sorted values, in key order
list_dimensions(resp) ==
    LET pairs == UNION {resp[i].dimensions : i \in 1..Len(resp)}
        keys == SortedSet(DimKeys(pairs))
    IN  [k \in 1..Len(keys) |->
            <<keys[k], SortedSet({p[2] : p \in {q \in pairs : q[1] = keys[k]}})>>]

\* lines 456-461: the values of one dimension, sorted
list_dimension_values(resp, dimension_name) ==
    LET pairs == UNION {resp[i].dimensions : i \in 1..Len(resp)}
    IN  SortedSet({p[2] : p \in {q \in pairs : q[1] = dimension_name}})

\* what the provider's SDK raises
ProviderErrors == {ConnectError, ServiceError}

\* a call the operation made on the SDK and the exception it raised, if any
ProviderCall(api, error) == [api |-> api, error |-> error]
NoValue == <<>>
\* how the operation ended
OpReturned(value) == [raised |-> FALSE, error |-> None, value |-> <<value>>]
OpRaised(e) == [raised |-> TRUE, error |-> e, value |-> NoValue]

\* the fault: the exception is logged and an empty result returned
Reraise_Suppressed(e) == OpReturned(<<>>)

\* `except Exception as e: logger.error(...); raise` of every operation
Reraise(e) == OpRaised(e)

NoOp == [name |-> None, calls |-> <<>>, outcome |-> OpRaised(None)]

\* the calls made when the k-th of `apis` raises e: the first k, no more
CallsUntil(apis, k, e) ==
    [i \in 1..k |-> ProviderCall(apis[i], IF i = k THEN e ELSE None)]

\* an operation that calls `apis` in turn and returns `value` unless one raises
Invoke(name, apis, value) ==
    \/ op' = [name |-> name, calls |-> CallsUntil(apis, Len(apis), None),
              outcome |-> OpReturned(value)]
    \/ \E k \in 1..Len(apis), e \in ProviderErrors :
          op' = [name |-> name, calls |-> CallsUntil(apis, k, e),
                 outcome |-> Reraise(e)]

OpsInit ==
    /\ provider_data \in SeqsOf(MetricPoints, 0, MaxPoints)
    /\ op = NoOp
    /\ IdleManager
    /\ IdleWeb
    /\ NoAuth
    /\ IdleRegions /\ IdlePaths /\ idx = 0 /\ IdleCli /\ IdleRender

\* list_compartments, lines 212-268
CallListCompartments ==
    Invoke("list_compartments", <<"get_tenancy", "list_compartments">>,
           ListCompartments)

\* list_metric_namespaces, lines 270-295
CallListMetricNamespaces ==
    Invoke("list_metric_namespaces", <<"list_metrics">>,
           list_metric_namespaces(provider_data))

\* list_metrics, lines 297-349
CallListMetrics ==
    Invoke("list_metrics", <<"list_metrics">>, list_metrics(provider_data))

\* list_resource_groups, lines 351-383
CallListResourceGroups ==
    Invoke("list_resource_groups", <<"list_metrics">>,
           list_resource_groups(provider_data))

\* list_dimensions, lines 385-423
CallListDimensions ==
    Invoke("list_dimensions", <<"list_metrics">>, list_dimensions(provider_data))

\* list_dimension_values, lines 425-465
CallListDimensionValues ==
    \E dimension_name \in {"resourceId", "availabilityDomain"} :
        Invoke("list_dimension_values", <<"list_metrics">>,
               list_dimension_values(provider_data, dimension_name))

\* query_metrics, lines 467-534
CallQueryMetrics ==
    \E cid \in CompartmentIds :
        Invoke("query_metrics", <<"summarize_metrics_data">>,
               QueryResult(ProviderResponse("us-ashburn-1", cid)))

OpsNext ==
    /\ \/ CallListCompartments
       \/ CallListMetricNamespaces
       \/ CallListMetrics
       \/ CallListResourceGroups
       \/ CallListDimensions
       \/ CallListDimensionValues
       \/ CallQueryMetrics
    /\ UNCHANGED provider_data
    /\ UNCHANGED <<webVars, managerVars, authVars, callerVars>>
    /\ UNCHANGED <<regionVars, pathVars, idx, cliVars, renderVars>>

OpsSpec == OpsInit /\ [][OpsNext]_vars

\* the names of the data points Monitoring returned
PointNames == {provider_data[i].name : i \in 1..Len(provider_data)}
\* the dimension keys of the data points of one name
KeysOfName(name) ==
    {k \in {"resourceId", "availabilityDomain"} :
        \E i \in 1..Len(provider_data) :
            /\ provider_data[i].name = name
            /\ \E p \in provider_data[i].dimensions : p[1] = k}

\* C14: what list_metrics returns holds exactly one entry for each metric name
\* among the data points; the entry's dimensions are, each once, the
\* dimension keys of all the data points of that name (a data point without
\* dimensions adds none); the entries are in ascending order of name.
C14_ListMetricsMerges ==
    op.name = "list_metrics" /\ ~op.outcome.raised =>
        LET out == op.outcome.value[1] IN
        /\ {out[i].name : i \in 1..Len(out)} = PointNames
        /\ \A i, j \in 1..Len(out) : i < j => StrRank(out[i].name) < StrRank(out[j].name)
        /\ \A i \in 1..Len(out) :
              /\ Range(out[i].dimensions) = KeysOfName(out[i].name)
              /\ Len(out[i].dimensions) = Cardinality(KeysOfName(out[i].name))

\* list_metrics returned two entries from three data points: two of one name
\* with different keys listed after one of the other name without dimensions
C14_Witness ==
    /\ op.name = "list_metrics"
    /\ ~op.outcome.raised
    /\ Len(provider_data) = 3
    /\ provider_data[1].name = "MemoryUtilization"
    /\ provider_data[1].dimensions = {}
    /\ provider_data[2].name = "CpuUtilization"
    /\ provider_data[3].name = "CpuUtilization"
    /\ DimKeys(provider_data[2].dimensions) = {"resourceId"}
    /\ DimKeys(provider_data[3].dimensions) = {"availabilityDomain"}
    /\ Len(op.outcome.value[1]) = 2
    /\ op.outcome.value[1][1].dimensions = <<"availabilityDomain", "resourceId">>

\* C18: in every operation of the Metrics Client, a provider call that raises
\* is the last provider call of that invocation (no call follows it and none
\* is made twice), and the operation ends by raising that same exception,
\* with no value returned.
C18_ProviderErrorsPropagate ==
    LET n == Len(op.calls) IN
    /\ \A k \in 1..n : op.calls[k].error # None =>
          /\ k = n
          /\ op.outcome.raised
          /\ op.outcome.error = op.calls[k].error
          /\ op.outcome.value = NoValue
    /\ \A i, j \in 1..n : i < j => op.calls[i].api # op.calls[j].api

\* list_compartments got the tenancy, then the listing raised
C18_Witness ==
    /\ op.name = "list_compartments"
    /\ Len(op.calls) = 2
    /\ op.calls[1].error = None
    /\ op.calls[2] = ProviderCall("list_compartments", ServiceError)
    /\ op.outcome = OpRaised(ServiceError)

-----------------------------------------------------------------------------
(* The other /api endpoints *)

\* longest `queries` array of a POST /api/query-multiple body
MaxItems == 3

\* a request: the parameters (or fields of the JSON object) it carries and
\* whether its start_time / end_time parse
Request(endpoint, fields, dates_ok) ==
    [endpoint |-> endpoint, fields |-> fields, dates_ok |-> dates_ok]

\* a call the handler made: get_oci_client or an operation of the client
ClientEvent(opname, outcome) ==
    [op |-> opname, region |-> None, compartment_id |-> None,
     outcome |-> outcome]

OkResponse(endpoint) ==
    [endpoint |-> endpoint, status |-> 200, json |-> TRUE, error |-> <<>>]

\* `try: client = get_oci_client(); client.<operation>(...); return jsonify(...)
\*  except Exception as e: return jsonify({"error": str(e)}), 500`
TryWithClient(endpoint, opname) ==
    \/ \* get_oci_client constructs the client, which raises
       /\ oci_client = None
       /\ response' = ErrorResponse(endpoint, 500, <<ConnectError>>)
       /\ trace' = <<ClientEvent("get_oci_client", "raise")>>
       /\ UNCHANGED oci_client
    \/ \* the operation raises
       /\ oci_client' = "client"
       /\ response' = ErrorResponse(endpoint, 500, <<ServiceError>>)
       /\ trace' = <<ClientEvent("get_oci_client", "ok"),
                     ClientEvent(opname, "raise")>>
    \/ /\ oci_client' = "client"
       /\ response' = OkResponse(endpoint)
       /\ trace' = <<ClientEvent("get_oci_client", "ok"),
                     ClientEvent(opname, "ok")>>

\* `if not compartment_id or not namespace ...`: a parameter is absent or empty
ArgsMissing(present, required) == present # required

\* a GET endpoint that checks its parameters, then lists through the client
ApiGet(endpoint, required, opname) ==
    /\ Idle
    /\ pc' = "done"
    /\ \E present \in SUBSET required :
          /\ data' = Request(endpoint, present, TRUE)
          /\ IF ArgsMissing(present, required)
             THEN /\ response' = ErrorResponse(endpoint, 400,
                                     <<"parameters are required">>)
                  /\ UNCHANGED <<trace, oci_client>>
             ELSE TryWithClient(endpoint, opname)
    /\ UNCHANGED <<regions, compartment_ids, ri, ci, client, results, errors,
                   region_manager, clients, constructed, compartment_cache>>
    /\ UNCHANGED <<authVars, callerVars, otherVars>>

\* the parameters each GET endpoint requires
RequiredArgs(endpoint) ==
    CASE endpoint = "namespaces" -> {"compartment_id"}
      [] endpoint \in {"resource-groups", "metrics", "dimensions"} ->
            {"compartment_id", "namespace"}
      [] endpoint = "dimension-values" ->
            {"compartment_id", "namespace", "dimension_name"}
      [] OTHER -> {}

\* GET /api/auth-info, lines 681-693: the client is obtained and described
ApiAuthInfo ==
    /\ Idle
    /\ pc' = "done"
    /\ data' = Request("auth-info", {}, TRUE)
    /\ \/ /\ oci_client = None
          /\ response' = ErrorResponse("auth-info", 500, <<ConnectError>>)
          /\ trace' = <<ClientEvent("get_oci_client", "raise")>>
          /\ UNCHANGED oci_client
       \/ /\ oci_client' = "client"
          /\ response' = OkResponse("auth-info")
          /\ trace' = <<ClientEvent("get_oci_client", "ok")>>
    /\ UNCHANGED <<regions, compartment_ids, ri, ci, client, results, errors,
                   region_manager, clients, constructed, compartment_cache>>
    /\ UNCHANGED <<authVars, callerVars, otherVars>>
\* GET /api/namespaces, lines 725-738
ApiListNamespaces ==
    ApiGet("namespaces", RequiredArgs("namespaces"), "list_metric_namespaces")
\* GET /api/resource-groups, lines 741-756
ApiListResourceGroups ==
    ApiGet("resource-groups", RequiredArgs("resource-groups"), "list_resource_groups")
\* GET /api/metrics, lines 759-775
ApiListMetrics == ApiGet("metrics", RequiredArgs("metrics"), "list_metrics")
\* GET /api/dimensions, lines 778-794
ApiListDimensions ==
    ApiGet("dimensions", RequiredArgs("dimensions"), "list_dimensions")
\* GET /api/dimension-values, lines 797-824
ApiListDimensionValues ==
    ApiGet("dimension-values", RequiredArgs("dimension-values"),
           "list_dimension_values")

\* GET /api/regions, lines 710-722: the manager is obtained inside the try;
\* get_available_regions does not raise
ApiListRegions ==
    /\ Idle
    /\ pc' = "done"
    /\ data' = Request("regions", {}, TRUE)
    /\ \/ /\ ~region_manager.created
          /\ response' = ErrorResponse("regions", 500, <<ConnectError>>)
          /\ trace' = <<ClientEvent("get_region_manager", "raise")>>
          /\ UNCHANGED region_manager
       \/ /\ region_manager' = NewManager
          /\ response' = OkResponse("regions")
          /\ trace' = <<ClientEvent("get_region_manager", "ok"),
                        ClientEvent("get_available_regions", "ok")>>
    /\ UNCHANGED <<regions, compartment_ids, ri, ci, client, results, errors,
                   clients, constructed, oci_client, compartment_cache>>
    /\ UNCHANGED <<authVars, callerVars, otherVars>>

\* line 832 and line 874: required_fields of a query body
QueryFields == <<"compartment_id", "namespace", "query", "start_time", "end_time">>

\* the required fields missing from a query body, in the order of the list
MissingOf(fields) == SelectSeq(QueryFields, LAMBDA f : f \notin fields)

\* the fault: the time strings are handed to the query unparsed
DatesRejected_Never(dates_ok) == FALSE

\* lines 837-841: date_parser.parse raises on start_time or end_time
DatesRejected(dates_ok) == ~dates_ok

\* POST /api/query, lines 827-856
ApiQueryMetrics ==
    /\ Idle
    /\ pc' = "done"
    /\ \E fields \in SUBSET Range(QueryFields), dates_ok \in BOOLEAN :
          /\ {"start_time", "end_time"} \ fields # {} => dates_ok
          /\ data' = Request("query", fields, dates_ok)
          /\ IF MissingOf(fields) # <<>>
             THEN /\ response' = ErrorResponse("query", 400,
                                     <<MissingOf(fields)[1], " is required">>)
                  /\ UNCHANGED <<trace, oci_client>>
             ELSE IF DatesRejected(dates_ok)
             THEN /\ response' = ErrorResponse("query", 400,
                                     <<"Invalid date format: ", "ParserError">>)
                  /\ UNCHANGED <<trace, oci_client>>
             ELSE TryWithClient("query", "query_metrics")
    /\ UNCHANGED <<regions, compartment_ids, ri, ci, client, results, errors,
                   region_manager, clients, constructed, compartment_cache>>
    /\ UNCHANGED <<authVars, callerVars, otherVars>>

-----------------------------------------------------------------------------
(* POST /api/query-multiple *)

\* an item of `queries`: the fields it carries and whether its times parse
QueryItem(fields, dates_ok) == [fields |-> fields, dates_ok |-> dates_ok]
QueryItems ==
    {QueryItem(Range(QueryFields), TRUE),
     QueryItem(Range(QueryFields), FALSE),
     QueryItem(Range(QueryFields) \ {"start_time"}, TRUE),
     QueryItem({"compartment_id", "start_time", "end_time"}, TRUE)}

\* the bodies: `queries` absent (kind "absent") or an array of items
MultipleRequests ==
    {[endpoint |-> "query-multiple", queries_kind |-> "absent", queries |-> <<>>]}
    \cup
    [endpoint : {"query-multiple"}, queries_kind : {"list"},
     queries : SeqsOf(QueryItems, 0, MaxItems)]

\* a call of query_metrics for the item at idx
ItemEvent(i, outcome) ==
    [op |-> "query_metrics", region |-> None, compartment_id |-> None,
     outcome |-> outcome, query_index |-> i]

\* ', '.join(missing)
RECURSIVE JoinNames(_)
JoinNames(names) ==
    IF names = <<>> THEN <<>>
    ELSE <<names[1]>> \o (IF Len(names) > 1 THEN <<", ">> ELSE <<>>)
         \o JoinNames(Tail(names))

\* the fault: an item that lacks fields is skipped without an entry
MissingItemErrors_Skipped(errs, i, missing) == errs

\* lines 877-882: the entry for an item that lacks required fields
MissingItemErrors(errs, i, missing) ==
    Append(errs, [query_index |-> i,
                  error |-> <<"Missing fields: ">> \o JoinNames(missing)])

\* lines 900-905: the entry for an item whose parsing or query raised
FailedItemErrors(errs, i, e) ==
    Append(errs, [query_index |-> i, query_id |-> i, error |-> <<e>>])

\* str(idx + 1)
Ordinals == <<"1", "2", "3", "4", "5">>

\* lines 896-898: the result of an item, tagged with its id and name
ItemResult(i) ==
    [query_id |-> i, query_name |-> <<"Query ", Ordinals[i + 1]>>,
     metric_data |-> Series(ProviderResponse("us-ashburn-1", "ocid1.compartment.b")[1])]

\* lines 862-863: request.json is read
ReceiveMultiple ==
    /\ Idle
    /\ data' \in MultipleRequests
    /\ pc' = "m_validate"
    /\ UNCHANGED <<regions, compartment_ids, ri, ci, client, results, errors,
                   response, trace, region_manager, clients, constructed,
                   oci_client, compartment_cache>>
    /\ UNCHANGED <<authVars, callerVars, otherVars>>

\* lines 865-869: `if not queries`
ValidateMultiple ==
    /\ pc = "m_validate"
    /\ IF data.queries = <<>>
       THEN /\ response' = ErrorResponse("query-multiple", 400,
                               <<"queries array is required">>)
            /\ pc' = "done"
       ELSE /\ pc' = "m_client"
            /\ UNCHANGED response
    /\ UNCHANGED <<data, regions, compartment_ids, ri, ci, client, results,
                   errors, trace, region_manager, clients, constructed,
                   oci_client, compartment_cache>>
    /\ UNCHANGED <<authVars, callerVars, otherVars>>

\* line 871: client = get_oci_client(), outside any try
GetClientMultiple ==
    /\ pc = "m_client"
    /\ \/ \* the construction raises and the exception leaves the handler
          /\ oci_client = None
          /\ response' = UnhandledResponse("query-multiple")
          /\ trace' = Append(trace, ClientEvent("get_oci_client", "raise"))
          /\ pc' = "done"
          /\ UNCHANGED oci_client
       \/ /\ oci_client' = "client"
          /\ trace' = Append(trace, ClientEvent("get_oci_client", "ok"))
          /\ pc' = "m_loop"
          /\ UNCHANGED response
    /\ UNCHANGED <<data, regions, compartment_ids, ri, ci, client, results,
                   errors, region_manager, clients, constructed,
                   compartment_cache>>
    /\ UNCHANGED <<authVars, callerVars, regionVars, pathVars, opVars, idx, cliVars, renderVars>>

\* lines 873-905: one iteration of `for idx, query_def in enumerate(queries)`
ItemStep ==
    /\ pc = "m_loop"
    /\ idx < Len(data.queries)
    /\ LET query_def == data.queries[idx + 1]
           missing == MissingOf(query_def.fields)
       IN  IF missing # <<>>
           THEN \* lines 877-882
                /\ errors' = MissingItemErrors(errors, idx, missing)
                /\ UNCHANGED <<results, trace>>
           ELSE IF DatesRejected(query_def.dates_ok)
           THEN \* lines 885-886 raise, lines 900-905 catch
                /\ errors' = FailedItemErrors(errors, idx, "ParserError")
                /\ UNCHANGED <<results, trace>>
           ELSE \/ \* lines 888-898
                   /\ results' = Append(results, ItemResult(idx))
                   /\ trace' = Append(trace, ItemEvent(idx, "ok"))
                   /\ UNCHANGED errors
                \/ \* query_metrics raises, lines 900-905 catch
                   /\ errors' = FailedItemErrors(errors, idx, ServiceError)
                   /\ trace' = Append(trace, ItemEvent(idx, "raise"))
                   /\ UNCHANGED results
    /\ idx' = idx + 1
    /\ UNCHANGED <<pc, data, regions, compartment_ids, ri, ci, client, response,
                   region_manager, clients, constructed, oci_client,
                   compartment_cache>>
    /\ UNCHANGED <<authVars, callerVars, regionVars, pathVars, opVars, cliVars, renderVars>>

\* lines 907-910: the loop is over, the response is built
RespondMultiple ==
    /\ pc = "m_loop"
    /\ idx = Len(data.queries)
    /\ response' = [endpoint |-> "query-multiple", status |-> 200, json |-> TRUE,
                    error |-> <<>>, results |-> results, errors |-> errors]
    /\ pc' = "done"
    /\ idx' = 0
    /\ UNCHANGED <<data, regions, compartment_ids, ri, ci, client, results,
                   errors, trace, region_manager, clients, constructed,
                   oci_client, compartment_cache>>
    /\ UNCHANGED <<authVars, callerVars, regionVars, pathVars, opVars, cliVars, renderVars>>

-----------------------------------------------------------------------------
(* The web application with all its /api endpoints, one request at a time *)

\* the unified bodies of this specification: at most one region and one
\* compartment, the fan-out being the subject of Spec
SingleQueryBodies ==
    {d \in UnifiedRequests : Len(d.regions) <= 1 /\ Len(d.compartment_ids) <= 1}

ReceiveUnifiedSingle == ReceiveUnifiedFrom(SingleQueryBodies)

ApiNext ==
    \/ ApiAuthInfo
    \/ ApiListCompartments
    \/ ApiListRegions
    \/ ApiListNamespaces
    \/ ApiListResourceGroups
    \/ ApiListMetrics
    \/ ApiListDimensions
    \/ ApiListDimensionValues
    \/ ApiQueryMetrics
    \/ ReceiveMultiple
    \/ ValidateMultiple
    \/ GetClientMultiple
    \/ ItemStep
    \/ RespondMultiple
    \/ ReceiveUnifiedSingle
    \/ Validate
    \/ GetRegionManager
    \/ PrepareQuery
    \/ RegionStep
    \/ QueryStep
    \/ Respond
    \/ Return

ApiSpec == Init /\ [][ApiNext]_vars

-----------------------------------------------------------------------------
(* Properties of the /api endpoints *)

\* the handler has answered
Done == pc = "done"

\* C15 (as stated): every response with an error status is a JSON object
\* with a non-empty `error` string and status 400 or 500, whatever failed.
C15_ErrorResponsesAreJson ==
    Done /\ response.status >= 400 =>
        /\ response.json
        /\ response.error # <<>>
        /\ response.status \in {400, 500}

\* the request carries a validation error at its top level: a required
\* parameter or field is missing, or a time string does not parse
TopLevelInvalid ==
    CASE response.endpoint = "query-unified" ->
            \/ MissingFields(data) # <<>>
            \/ data.compartment_ids = <<>>
            \/ ~data.dates_ok
      [] response.endpoint = "query-multiple" -> data.queries = <<>>
      [] response.endpoint = "query" ->
            MissingOf(data.fields) # <<>> \/ ~data.dates_ok
      [] response.endpoint = "compartments" -> FALSE
      [] OTHER -> data.fields # RequiredArgs(response.endpoint)

\* an item of a query-multiple body lacks a field or carries a bad time
SomeItemInvalid ==
    /\ response.endpoint = "query-multiple"
    /\ \E i \in 1..Len(data.queries) :
          \/ MissingOf(data.queries[i].fields) # <<>>
          \/ ~data.queries[i].dates_ok

\* C16 (as stated): a request with a validation error, at the top level or
\* in an item, is answered with a 400 and no call was made for it.  The
\* requests the framework answers itself, after an exception left the
\* handler (C15), are left aside.
C16_Original ==
    Done /\ response.json /\ (TopLevelInvalid \/ SomeItemInvalid) =>
        response.status = 400 /\ trace = <<>>

\* C16: every 400 answer is given before any call is made for the request.
\* A request with a missing required parameter or field (for query-multiple:
\* a missing or empty queries array; for query-unified also an empty
\* compartment_ids) is answered with that 400; so is an unparsable time on
\* /api/query.  On query-unified an unparsable time is answered with a 400
\* unless obtaining the region manager (or reading `regions`) failed first,
\* which is answered with a 500, in both cases before any client is obtained
\* or any query made.  An invalid item of query-multiple is no 400: it is one
\* entry of `errors` in a 200 answer, queries of earlier items having run.
C16_ValidationFirst ==
    Done =>
        /\ response.status = 400 => trace = <<>> /\ TopLevelInvalid
        /\ TopLevelInvalid =>
              /\ trace = <<>>
              /\ \/ response.status = 400
                 \/ /\ response = UnhandledResponse("query-unified")
                    /\ MissingFields(data) = <<>>
                    /\ data.compartment_ids # <<>>
        /\ SomeItemInvalid /\ response.status = 200 =>
              \A i \in 1..Len(data.queries) :
                  (MissingOf(data.queries[i].fields) # <<>>
                      \/ ~data.queries[i].dates_ok)
                  => /\ \E k \in 1..Len(response.errors) :
                           response.errors[k].query_index = i - 1
                     /\ \A k \in 1..Len(trace) :
                           trace[k].op = "query_metrics" =>
                               trace[k].query_index # i - 1

\* a query with an unparsable time was refused with no call made, while the
\* shared client already existed
C16_Witness ==
    /\ Done
    /\ response.endpoint = "query"
    /\ response.status = 400
    /\ MissingOf(data.fields) = <<>>
    /\ ~data.dates_ok
    /\ trace = <<>>
    /\ oci_client = "client"

\* the items of the body being handled, and what became of each
ItemCount == Len(data.queries)
ItemInvalid(i) ==
    \/ MissingOf(data.queries[i + 1].fields) # <<>>
    \/ ~data.queries[i + 1].dates_ok
ItemQueries(i, outcome) ==
    Cardinality({k \in 1..Len(trace) : trace[k] = ItemEvent(i, outcome)})
ErrorsOf(i) == Cardinality({k \in 1..Len(errors) : errors[k].query_index = i})
ResultsOf(i) == Cardinality({k \in 1..Len(results) : results[k].query_id = i})

\* C17: once the shared client is obtained, the loop of query-multiple
\* handles the items one by one up to the last and answers with a 200; by
\* then each item that lacks a field, carries an unparsable time or whose
\* query raised has exactly one entry in `errors`, carrying its index, and
\* none in `results`; each other item was queried exactly once, whatever
\* happened to the items before it, and has exactly one entry in `results`;
\* both lists are in request order, and together they hold K entries.
C17_ItemsAreIndependent ==
    /\ pc = "m_loop" =>
          /\ idx <= ItemCount
          /\ Len(results) + Len(errors) = idx
    /\ Done /\ response.endpoint = "query-multiple" /\ response.json
            /\ data.queries # <<>> =>
          /\ response.status = 200
          /\ Len(response.results) + Len(response.errors) = ItemCount
          /\ response.results = results /\ response.errors = errors
          /\ \A i \in 0..(ItemCount - 1) :
                IF ItemInvalid(i) \/ ItemQueries(i, "raise") = 1
                THEN /\ ErrorsOf(i) = 1 /\ ResultsOf(i) = 0
                     /\ ItemInvalid(i) => ItemQueries(i, "raise") = 0
                     /\ ItemQueries(i, "ok") = 0
                ELSE /\ ErrorsOf(i) = 0 /\ ResultsOf(i) = 1
                     /\ ItemQueries(i, "ok") = 1
          /\ \A j, k \in 1..Len(results) :
                j < k => results[j].query_id < results[k].query_id
          /\ \A j, k \in 1..Len(errors) :
                j < k => errors[j].query_index < errors[k].query_index

\* three items: the first lacks fields, the query of the second raised, the
\* third succeeded
C17_Witness ==
    /\ Done
    /\ response.endpoint = "query-multiple"
    /\ response.status = 200
    /\ ItemCount = 3
    /\ MissingOf(data.queries[1].fields) # <<>>
    /\ ItemQueries(1, "raise") = 1
    /\ Len(response.errors) = 2
    /\ Len(response.results) = 1
    /\ response.results[1].query_id = 2

-----------------------------------------------------------------------------
(* The command line tool: main() of generate_report.py *)

\* --metric and --mql options on a command line, together
MaxCliQueries == 2

\* the command lines argparse accepts (--compartment is given): the flags
\* main() branches on.  times: "hours" (relative), "iso" (both explicit
\* bounds, well formed), "bad" (both given, one is not ISO 8601)
\* Command lines that differ only in options main() never reads are one
\* command line: --interval, --statistic, --group-by and --resource-group
\* are read when a query is built from a --metric (lines 579-592).
Intervals == {"1h", "5m"}
Statistics == {"mean", "max", "p50", "p90", "p95", "p99"}
CommandLines ==
    {a \in [list_compartments : BOOLEAN, list_namespaces : BOOLEAN,
            list_metrics : BOOLEAN,
            namespace : {None, "oci_computeagent"},
            metrics : 0..MaxCliQueries, mql_queries : 0..MaxCliQueries,
            times : {"hours", "iso", "bad"},
            json : BOOLEAN,
            interval : Intervals, statistic : Statistics,
            group_by : {None, "", "resourceId"},
            resource_group : {None, "", "frontend"}] :
        /\ a.metrics + a.mql_queries <= MaxCliQueries
        /\ \/ /\ a.interval = "1h" /\ a.statistic = "mean"
              /\ a.group_by = None /\ a.resource_group = None
           \/ /\ a.metrics > 0 /\ a.namespace # None /\ a.times # "bad"
              /\ ~a.list_compartments /\ ~a.list_namespaces /\ ~a.list_metrics}

\* a command line argparse rejects (e.g. --compartment is missing)
UsageError == [usage_error |-> TRUE]
\* before parse_args() returned
NotParsed == [parsed |-> FALSE]

\* a call main() made on the client, or the write of the report
CliEvent(opname, outcome) == [op |-> opname, outcome |-> outcome]
\* a query_metrics call of main()
CliQueryEvent(query, outcome) ==
    [op |-> "query_metrics", outcome |-> outcome, namespace |-> query.namespace,
     query |-> query.mql]

\* lines 197-203: stat_map.get(statistic, statistic)
stat_map(statistic) ==
    CASE statistic = "p50" -> "percentile(0.5)"
      [] statistic = "p90" -> "percentile(0.9)"
      [] statistic = "p95" -> "percentile(0.95)"
      [] statistic = "p99" -> "percentile(0.99)"
      [] OTHER -> statistic

\* the fault: the grouping is written before the resource group filter
build_mql_GroupFirst(metric, interval, statistic, group_by, resource_group) ==
    <<metric, "[", interval, "]">>
    \o (IF Truthy(group_by) THEN <<".groupBy(", group_by, ")">> ELSE <<>>)
    \o (IF Truthy(resource_group)
        THEN <<"{resourceGroup=\"", resource_group, "\"}">> ELSE <<>>)
    \o <<".", stat_map(statistic), "()">>

\* lines 192-215: build_mql
build_mql(metric, interval, statistic, group_by, resource_group) ==
    <<metric, "[", interval, "]">>
    \o (IF Truthy(resource_group)
        THEN <<"{resourceGroup=\"", resource_group, "\"}">> ELSE <<>>)
    \o (IF Truthy(group_by) THEN <<".groupBy(", group_by, ")">> ELSE <<>>)
    \o <<".", stat_map(statistic), "()">>
MetricArgs == <<"CpuUtilization", "MemoryUtilization", "DiskBytesRead">>
MqlArgs == <<<<"CpuUtilization[5m].max()">>, <<"MemoryUtilization[5m].max()">>,
             <<"DiskBytesRead[5m].max()">>>>

\* the fault: the --metric queries are put before the --mql queries
queries_of_MetricsFirst(a) ==
    [k \in 1..a.metrics |->
        [namespace |-> a.namespace,
         mql |-> build_mql(MetricArgs[k], a.interval, a.statistic,
                           a.group_by, a.resource_group)]]
    \o [k \in 1..a.mql_queries |-> [namespace |-> a.namespace, mql |-> MqlArgs[k]]]

\* lines 569-592: the --mql queries first, then one per --metric
queries_of(a) ==
    [k \in 1..a.mql_queries |-> [namespace |-> a.namespace, mql |-> MqlArgs[k]]]
    \o [k \in 1..a.metrics |->
           [namespace |-> a.namespace,
            mql |-> build_mql(MetricArgs[k], a.interval, a.statistic,
                              a.group_by, a.resource_group)]]

\* lines 621-626: the file the report goes to and its format
OutputOf(a) ==
    IF a.json THEN [path |-> <<"oci_metrics_report", ".json">>, format |-> "json"]
    ELSE [path |-> <<"oci_metrics_report", ".html">>, format |-> "html"]

\* the status of a process an uncaught exception ends
UncaughtStatus == 1

\* the fault: the discovery branch falls through to the report
AfterDiscovery_FallThrough == "validate"

\* lines 526, 534, 547: sys.exit(0) ends every discovery branch
AfterDiscovery == "exited"

\* the fault: a failed query fails the run
FinalStatus_FailsOnError(outcomes) ==
    IF \E i \in DOMAIN outcomes : "error" \in DOMAIN outcomes[i] THEN 1 ELSE 0

\* line 641: main() returns whatever the query results hold
FinalStatus(outcomes) == 0

CliInit ==
    /\ args = NotParsed
    /\ cli_pc = "parse"
    /\ cli_trace = <<>>
    /\ cli_results = <<>>
    /\ output_file = {}
    /\ exit_status = Running
    /\ IdleManager
    /\ IdleWeb
    /\ NoAuth
    /\ IdleRegions /\ IdlePaths /\ IdleOps /\ idx = 0 /\ IdleRender

\* the process ends with `status`
Exit(status) ==
    /\ cli_pc' = "exited"
    /\ exit_status' = status

\* line 499: parse_args(); argparse exits with status 2 on a usage error
ParseArgs ==
    /\ cli_pc = "parse"
    /\ \/ /\ args' = UsageError
          /\ Exit(2)
       \/ /\ args' \in CommandLines
          /\ cli_pc' = "init"
          /\ UNCHANGED exit_status
    /\ UNCHANGED <<cli_trace, cli_results, output_file>>

\* lines 503-516: the client is constructed; any exception ends the run
InitClient ==
    /\ cli_pc = "init"
    /\ \/ /\ cli_trace' = Append(cli_trace, CliEvent("init", "raise"))
          /\ Exit(1)
       \/ /\ cli_trace' = Append(cli_trace, CliEvent("init", "ok"))
          /\ cli_pc' = "discovery"
          /\ UNCHANGED exit_status
    /\ UNCHANGED <<args, cli_results, output_file>>

\* a discovery listing: its exception is not caught, else the branch ends
Listing(opname) ==
    \/ /\ cli_trace' = Append(cli_trace, CliEvent(opname, "raise"))
       /\ Exit(UncaughtStatus)
    \/ /\ cli_trace' = Append(cli_trace, CliEvent(opname, "ok"))
       /\ cli_pc' = AfterDiscovery
       /\ exit_status' = IF AfterDiscovery = "exited" THEN 0 ELSE exit_status

\* lines 519-547: the discovery flags, in the order they are tested
Discovery ==
    /\ cli_pc = "discovery"
    /\ IF args.list_compartments
       THEN Listing("list_compartments")
       ELSE IF args.list_namespaces
       THEN Listing("list_metric_namespaces")
       ELSE IF args.list_metrics
       THEN IF ~Truthy(args.namespace)
            THEN Exit(1) /\ UNCHANGED cli_trace
            ELSE Listing("list_metrics")
       ELSE /\ cli_pc' = "validate"
            /\ UNCHANGED <<exit_status, cli_trace>>
    /\ UNCHANGED <<args, cli_results, output_file>>

\* lines 550-556: what a report needs
ValidateReport ==
    /\ cli_pc = "validate"
    /\ IF ~Truthy(args.namespace) /\ args.mql_queries = 0
       THEN Exit(1)
       ELSE IF args.metrics = 0 /\ args.mql_queries = 0
       THEN Exit(1)
       ELSE cli_pc' = "time" /\ UNCHANGED exit_status
    /\ UNCHANGED <<args, cli_trace, cli_results, output_file>>

\* lines 559-564: datetime.fromisoformat raises on a malformed bound
TimeRange ==
    /\ cli_pc = "time"
    /\ IF args.times = "bad"
       THEN Exit(UncaughtStatus)
       ELSE cli_pc' = "queries" /\ UNCHANGED exit_status
    /\ UNCHANGED <<args, cli_trace, cli_results, output_file>>

\* lines 598-618: one iteration of the query loop
RunQuery ==
    /\ cli_pc = "queries"
    /\ Len(cli_results) < Len(queries_of(args))
    /\ LET query == queries_of(args)[Len(cli_results) + 1] IN
       \/ /\ cli_trace' = Append(cli_trace, CliQueryEvent(query, "ok"))
          /\ cli_results' = Append(cli_results,
                               [query |-> query.mql, namespace |-> query.namespace,
                                metric_data |-> <<"series">>])
       \/ /\ cli_trace' = Append(cli_trace, CliQueryEvent(query, "raise"))
          /\ cli_results' = Append(cli_results,
                               [query |-> query.mql, namespace |-> query.namespace,
                                error |-> <<ServiceError>>, metric_data |-> <<>>])
    /\ UNCHANGED <<args, cli_pc, output_file, exit_status>>

\* lines 621-641: the report is rendered and written; main() returns
WriteOutput ==
    /\ cli_pc = "queries"
    /\ Len(cli_results) = Len(queries_of(args))
    /\ \/ \* open() or the rendering raises
          /\ cli_trace' = Append(cli_trace, CliEvent("write", "raise"))
          /\ Exit(UncaughtStatus)
          /\ UNCHANGED output_file
       \/ /\ cli_trace' = Append(cli_trace, CliEvent("write", "ok"))
          /\ output_file' = {OutputOf(args)}
          /\ Exit(FinalStatus(cli_results))
    /\ UNCHANGED <<args, cli_results>>

CliNext ==
    /\ \/ ParseArgs
       \/ InitClient
       \/ Discovery
       \/ ValidateReport
       \/ TimeRange
       \/ RunQuery
       \/ WriteOutput
    /\ UNCHANGED <<webVars, managerVars, authVars, callerVars>>
    /\ UNCHANGED <<regionVars, pathVars, opVars, idx, renderVars>>

CliSpec == CliInit /\ [][CliNext]_vars


\* outcomes of the calls main() made, read off the trace
CliRaised(opname) ==
    \E i \in DOMAIN cli_trace :
        cli_trace[i].op = opname /\ cli_trace[i].outcome = "raise"
CliCalled(opname) == \E i \in DOMAIN cli_trace : cli_trace[i].op = opname
Accepted == "list_metrics" \in DOMAIN args
AnyDiscoveryFlag ==
    Accepted /\ (args.list_compartments \/ args.list_namespaces \/ args.list_metrics)
\* --list-metrics is the discovery flag acted on, and --namespace is missing
ListMetricsWithoutNamespace ==
    /\ Accepted /\ ~CliRaised("init")
    /\ ~args.list_compartments /\ ~args.list_namespaces /\ args.list_metrics
    /\ args.namespace = None
\* a report is asked for without what it needs
ReportArgsMissing ==
    /\ Accepted /\ ~CliRaised("init") /\ ~AnyDiscoveryFlag
    /\ \/ args.namespace = None /\ args.mql_queries = 0
       \/ args.metrics = 0 /\ args.mql_queries = 0
\* an exception nothing in main() catches
UncaughtException ==
    \/ CliRaised("list_compartments") \/ CliRaised("list_metric_namespaces")
    \/ CliRaised("list_metrics") \/ CliRaised("write")
    \/ /\ Accepted /\ ~CliRaised("init") /\ ~AnyDiscoveryFlag /\ ~ReportArgsMissing
       /\ args.times = "bad"

FirstDiscovery ==
    IF args.list_compartments THEN "list_compartments"
    ELSE IF args.list_namespaces THEN "list_metric_namespaces"
    ELSE "list_metrics"

\* C20: with any discovery flag set (and the client initialized), the run
\* performs at most the one listing selected in the order --list-compartments,
\* --list-namespaces, --list-metrics, then exits: no metric query is
\* executed and no output file is written.
C20_DiscoveryShortCircuits ==
    AnyDiscoveryFlag =>
        /\ cli_pc \in {"init", "discovery", "exited"}
        /\ ~CliCalled("query_metrics") /\ ~CliCalled("write")
        /\ cli_results = <<>> /\ output_file = {}
        /\ \A i \in DOMAIN cli_trace :
               cli_trace[i].op \in {"init", FirstDiscovery}
        /\ Len(cli_trace) <= 2
        /\ (cli_pc = "exited" /\ exit_status = 0) =>
               (Len(cli_trace) = 2 /\ cli_trace[2] = CliEvent(FirstDiscovery, "ok"))

\* --list-namespaces together with --list-metrics and report options: only
\* the namespaces were listed and the run exited with status 0
C20_Witness ==
    /\ Accepted
    /\ ~args.list_compartments /\ args.list_namespaces /\ args.list_metrics
    /\ args.metrics > 0 /\ args.namespace # None
    /\ cli_pc = "exited" /\ exit_status = 0
    /\ cli_trace = <<CliEvent("init", "ok"), CliEvent("list_metric_namespaces", "ok")>>

-----------------------------------------------------------------------------
(* Order of the unified fan-out *)

\* the calls `t` are what the loops make from region i on, j = 0 before the
\* get_client of region i and j >= 1 before the query of its j-th compartment
RECURSIVE RegionMajor(_, _, _)
RegionMajor(t, i, j) ==
    IF t = <<>> THEN TRUE
    ELSE IF i > Len(regions) THEN FALSE
    ELSE LET e == Head(t)
             last == j = Len(compartment_ids)
         IN IF j = 0
            THEN /\ e.op = "get_client"
                 /\ e.region = regions[i]
                 /\ IF IsClientRaise(e) \/ compartment_ids = <<>>
                    THEN RegionMajor(Tail(t), i + 1, 0)
                    ELSE RegionMajor(Tail(t), i, 1)
            ELSE /\ e.op = "query_metrics"
                 /\ e.region = regions[i]
                 /\ e.compartment_id = compartment_ids[j]
                 /\ RegionMajor(Tail(t), IF last THEN i + 1 ELSE i,
                                IF last THEN 0 ELSE j + 1)

\* the handler is in the loops of a unified query, or has just left them
InFanOut ==
    \/ pc \in {"region", "query"}
    \/ Answered

\* C21: the unified query walks the region x compartment cross product in
\* region-major order, one call after the other: each region's get_client
\* comes before its queries, a region's compartments are queried in request
\* order before the next region starts, and results and errors list their
\* entries in the order the calls settled them.
C21_RegionMajorOrder ==
    InFanOut =>
        /\ RegionMajor(trace, 1, 0)
        /\ Tags(results) = SettledBy(IsQueryOk)
        /\ Tags(errors) = SettledBy(IsFailure)
        /\ \E n \in 0..Len(CrossProduct) :
               SettledBy(AnyEvent) = SubSeq(CrossProduct, 1, n)
        /\ Answered => SettledBy(AnyEvent) = CrossProduct

\* a 2 x 2 query answered: the first region queried both compartments, one
\* of them failing, before the second region was started
C21_Witness ==
    /\ Answered
    /\ Len(regions) = 2 /\ Len(compartment_ids) = 2
    /\ regions[1] # regions[2] /\ compartment_ids[1] # compartment_ids[2]
    /\ Len(trace) = 6
    /\ IsQueryRaise(trace[2]) /\ IsQueryOk(trace[3])
    /\ IsClientOk(trace[4])
    /\ Len(results) = 3 /\ Len(errors) = 1

-----------------------------------------------------------------------------
(* The process-wide caches over a tenancy whose compartments come and go *)

\* compartments the tenancy may hold at one time
MaxTenancyCompartments == 2

\* the compartments Identity may ever answer with, oldest first
CompartmentPool ==
    << [id |-> "ocid1.compartment.a", name |-> "prod"],
       [id |-> "ocid1.compartment.b", name |-> "dev"],
       [id |-> "ocid1.compartment.c", name |-> "qa"] >>

\* list_compartments at different times: the root, then the compartments
\* that exist, each with its path
TenancyListings ==
    {<< [id |-> TenancyId, name |-> TenancyName,
         path |-> <<TenancyName, " (root)">>] >>
     \o [k \in 1..Len(SelectSeq(CompartmentPool, LAMBDA c : c.id \in S)) |->
            LET c == SelectSeq(CompartmentPool, LAMBDA x : x.id \in S)[k] IN
            [id |-> c.id, name |-> c.name, path |-> <<TenancyName, "/", c.name>>]]
     : S \in SUBSET {CompartmentPool[i].id : i \in 1..MaxTenancyCompartments}}

ApiListTenancy == ApiListCompartmentsOf(TenancyListings)

CacheNext ==
    \/ ApiListTenancy
    \/ ReceiveUnifiedSingle
    \/ Validate
    \/ GetRegionManager
    \/ PrepareQuery
    \/ RegionStep
    \/ QueryStep
    \/ Respond
    \/ Return

CacheSpec == Init /\ [][CacheNext]_vars

\* the step is the answer of a successful compartment listing
ListingAnswered ==
    /\ pc = "idle" /\ pc' = "done"
    /\ response'.endpoint = "compartments"
    /\ response'.status = 200

\* C22: the caches only grow: a compartment id stored in the compartment-name
\* cache and a region stored in the client map stay present whatever request
\* follows; the compartment-name cache changes only in the step of a
\* successful compartment listing, which stores what it listed, and a
\* unified query labels its entries with the name cached at that time.
C22_CachesNeverEvicted ==
    [][/\ DOMAIN compartment_cache \subseteq DOMAIN compartment_cache'
       /\ DOMAIN clients \subseteq DOMAIN clients'
       /\ compartment_cache' # compartment_cache =>
             /\ ListingAnswered
             /\ \A i \in 1..Len(response'.compartments) :
                   LET c == response'.compartments[i] IN
                   c.id \in DOMAIN compartment_cache' /\ compartment_cache'[c.id] = c
             /\ \A k \in DOMAIN compartment_cache :
                   (\A i \in 1..Len(response'.compartments) :
                        response'.compartments[i].id # k)
                   => compartment_cache'[k] = compartment_cache[k]
       /\ Len(results') > Len(results) =>
             LET e == results'[Len(results')] IN
             e.compartment_name =
                IF e.compartment_id \in DOMAIN compartment_cache
                THEN compartment_cache[e.compartment_id].name
                ELSE e.compartment_id
      ]_vars

\* after listings that stored two compartments, a unified query is answered
\* with a cached name through a cached client
C22_Witness ==
    /\ Answered
    /\ Len(results) = 1
    /\ results[1].compartment_id = "ocid1.compartment.b"
    /\ results[1].compartment_name = "dev"
    /\ DOMAIN compartment_cache = {TenancyId, "ocid1.compartment.a", "ocid1.compartment.b"}
    /\ DOMAIN clients # {}

-----------------------------------------------------------------------------
(* The report writer: generate_html_report, get_color and the output of
   main() in generate_report.py *)

\* most series in one result
MaxSeries == 9
\* the clock stops after this many ticks
MaxClock == 3
\* most documents produced from the same inputs
MaxRenderings == 2
\* clock ticks in one second
TicksPerSecond == 2

\* point values are binary fractions: the integer k stands for the float k/8
ReportPoints ==
    << <<[timestamp |-> <<"2026-01-01T00:00:00+00:00">>, value |-> 12]>>,
       <<[timestamp |-> <<"2026-01-01T00:00:00+00:00">>, value |-> 1],
         [timestamp |-> <<"2026-01-01T01:00:00+00:00">>, value |-> 801]>> >>

\* a series as query_metrics builds it (app.py lines 506-528), in two variants
ReportSeries(v) ==
    [name |-> <<"CpuUtilization">>,
     dimensions |-> IF v = 1 THEN {} ELSE {<<"resourceId", "i1">>,
                                           <<"availabilityDomain", "ad1">>},
     label |-> IF v = 1 THEN <<"CpuUtilization">>
               ELSE <<"CpuUtilization", " ", "(",
                      "availabilityDomain=ad1, resourceId=i1", ")">>,
     data_points |-> ReportPoints[v]]

\* a result of n series
ReportResult(n, v) ==
    [query |-> <<"CpuUtilization[1h].mean()">>,
     namespace |-> <<"oci_computeagent">>,
     metric_data |-> [i \in 1..n |-> ReportSeries(v)]]

\* the entry main() stores for a query that raised (lines 611-618)
FailedResult ==
    [query |-> <<"CpuUtilization[1h].mean()">>,
     namespace |-> <<"oci_computeagent">>,
     error |-> <<ServiceError>>,
     metric_data |-> <<>>]

ReportResults ==
    {ReportResult(n, v) : n \in 0..MaxSeries, v \in DOMAIN ReportPoints}
    \cup {FailedResult}

\* the result lists rendered: one result, or one result and a second chart
ResultLists ==
    {<<r>> : r \in ReportResults}
    \cup {<<r, t>> : r \in ReportResults,
                     t \in {FailedResult, ReportResult(1, Len(ReportPoints))}}

\* --output: a path as the sequence of its parts
PathParts == {"report", "/", ".html", ".json", ".txt"}
DefaultOutput == <<"oci_metrics_report", ".html">>
OutputPaths ==
    {DefaultOutput}
    \cup {<<p>> : p \in PathParts}
    \cup {<<p, q>> : p, q \in PathParts}
    \cup {<<"report", ".html", p, q>> : p, q \in PathParts}

\* what main() hands to the report writer
ReportInput(res, as_json, output) ==
    [results |-> res, title |-> <<"OCI Metrics Report">>,
     args |-> [json |-> as_json, output |-> output,
               compartment |-> <<"ocid1.compartment.a">>, hours |-> 24,
               namespace |-> <<"oci_computeagent">>]]

ReportInputs ==
    {ReportInput(res, j, DefaultOutput) : res \in ResultLists, j \in BOOLEAN}
    \cup {ReportInput(<<FailedResult>>, j, o) : j \in BOOLEAN, o \in OutputPaths}

\* lines 484-493: the palette, as the red, green and blue of each entry
colors ==
    << <<49, 45, 42>>, <<40, 167, 69>>, <<220, 53, 69>>, <<255, 193, 7>>,
       <<111, 66, 193>>, <<23, 162, 184>>, <<253, 126, 20>>, <<108, 117, 125>> >>

\* the fault: indexes past the palette get its last entry
get_color_Clamped(index, alpha) ==
    <<"rgba(", colors[IF index < Len(colors) THEN index + 1 ELSE Len(colors)],
      alpha, ")">>

\* lines 482-494: get_color(index, alpha)
get_color(index, alpha) ==
    <<"rgba(", colors[(index % Len(colors)) + 1], alpha, ")">>

\* line 355: datetime.now().strftime("%Y-%m-%d %H:%M:%S"), seconds resolution
strftime(now) == now \div TicksPerSecond

\* lines 220-245: charts_data
charts_data(res) ==
    [k \in 1..Len(res) |->
        [id |-> <<"chart_", k - 1>>,
         query |-> res[k].query,
         namespace |-> res[k].namespace,
         datasets |->
            [s \in 1..Len(res[k].metric_data) |->
                LET series == res[k].metric_data[s] IN
                [label |-> series.label,
                 data |-> [p \in 1..Len(series.data_points) |->
                              [x |-> series.data_points[p].timestamp,
                               y |-> series.data_points[p].value]],
                 borderColor |-> get_color(s - 1, "1.0"),
                 backgroundColor |-> get_color(s - 1, "0.1"),
                 fill |-> FALSE,
                 tension |-> "0.1"]]]]

\* lines 218-479: the HTML document, by the parts that vary
generate_html_report(res, title, a, now) ==
    [format |-> "html",
     title |-> title,
     generated |-> strftime(now),
     compartment |-> a.compartment,
     hours |-> a.hours,
     total_queries |-> Len(res),
     namespace |-> IF a.namespace = <<>> THEN <<"Multiple">> ELSE a.namespace,
     charts |-> charts_data(res)]

\* JSON text, as the tree of its values
JsonString(s) == [json |-> "string", text |-> s]
JsonNumber(text) == [json |-> "number", text |-> text]
JsonArray(items) == [json |-> "array", items |-> items]
JsonObject(members) == [json |-> "object", members |-> members]
Member(obj, key) ==
    obj.members[CHOOSE i \in DOMAIN obj.members : obj.members[i][1] = key][2]
HasMember(obj, key) == \E i \in DOMAIN obj.members : obj.members[i][1] = key

\* the fault: values are written as integers
FloatRepr_Truncated(k) == <<k \div 8, ".", 0>>

\* json.dumps of a float: repr(), the integer part and the thousandths
FloatRepr(k) == <<k \div 8, ".", (k % 8) * 125>>

\* json.loads of a number: the float the decimal text stands for
ParseFloat(text) == text[1] * 8 + (text[3] * 8) \div 1000

\* json.dumps(results, indent=2, default=str), lines 621-622
DumpPoint(dp) ==
    JsonObject(<< <<"timestamp", JsonString(dp.timestamp)>>,
                  <<"value", JsonNumber(FloatRepr(dp.value))>> >>)
DumpDimensions(dims) ==
    JsonObject([i \in 1..Len(SortedItems(dims)) |->
                   <<SortedItems(dims)[i][1],
                     JsonString(<<SortedItems(dims)[i][2]>>)>>])
DumpSeries(series) ==
    JsonObject(<< <<"name", JsonString(series.name)>>,
                  <<"dimensions", DumpDimensions(series.dimensions)>>,
                  <<"label", JsonString(series.label)>>,
                  <<"data_points",
                    JsonArray([p \in 1..Len(series.data_points) |->
                                  DumpPoint(series.data_points[p])])>> >>)
DumpResult(r) ==
    JsonObject(<< <<"query", JsonString(r.query)>>,
                  <<"namespace", JsonString(r.namespace)>> >>
               \o (IF "error" \in DOMAIN r
                   THEN << <<"error", JsonString(r.error)>> >> ELSE <<>>)
               \o << <<"metric_data",
                       JsonArray([s \in 1..Len(r.metric_data) |->
                                     DumpSeries(r.metric_data[s])])>> >>)
json_dumps(res) ==
    [format |-> "json",
     text |-> JsonArray([k \in 1..Len(res) |-> DumpResult(res[k])])]

\* json.loads of such a document
LoadPoint(v) ==
    [timestamp |-> Member(v, "timestamp").text,
     value |-> ParseFloat(Member(v, "value").text)]
LoadDimensions(v) ==
    {<<v.members[i][1], v.members[i][2].text[1]>> : i \in DOMAIN v.members}
LoadSeries(v) ==
    [name |-> Member(v, "name").text,
     dimensions |-> LoadDimensions(Member(v, "dimensions")),
     label |-> Member(v, "label").text,
     data_points |->
        [p \in DOMAIN Member(v, "data_points").items |->
            LoadPoint(Member(v, "data_points").items[p])]]
LoadMetricData(v) ==
    [s \in DOMAIN Member(v, "metric_data").items |->
        LoadSeries(Member(v, "metric_data").items[s])]
LoadResult(v) ==
    IF HasMember(v, "error")
    THEN [query |-> Member(v, "query").text,
          namespace |-> Member(v, "namespace").text,
          error |-> Member(v, "error").text,
          metric_data |-> LoadMetricData(v)]
    ELSE [query |-> Member(v, "query").text,
          namespace |-> Member(v, "namespace").text,
          metric_data |-> LoadMetricData(v)]
json_loads(doc) == [k \in DOMAIN doc.text.items |-> LoadResult(doc.text.items[k])]

\* str.endswith and str.replace on a path
EndsWith(path, part) == path # <<>> /\ path[Len(path)] = part
Replace(path, old, new) ==
    [i \in DOMAIN path |-> IF path[i] = old THEN new ELSE path[i]]

\* lines 621-626: the file the report is written to
OutputPath(a) ==
    IF a.json
    THEN IF EndsWith(a.output, ".html")
         THEN Replace(a.output, ".html", ".json")
         ELSE a.output
    ELSE a.output

RenderInit ==
    /\ report_in \in ReportInputs
    /\ report_out = <<>>
    /\ clock = 0
    /\ IdleManager
    /\ IdleWeb
    /\ NoAuth
    /\ IdleRegions /\ IdlePaths /\ IdleOps /\ idx = 0 /\ IdleCli

\* time passes
Tick ==
    /\ clock < MaxClock
    /\ clock' = clock + 1
    /\ UNCHANGED <<report_in, report_out>>

\* lines 620-630: the report is rendered and written
WriteReport ==
    /\ Len(report_out) < MaxRenderings
    /\ LET a == report_in.args
           output == IF a.json
                     THEN json_dumps(report_in.results)
                     ELSE generate_html_report(report_in.results,
                                               report_in.title, a, clock)
       IN report_out' = Append(report_out,
                               [path |-> OutputPath(a), content |-> output])
    /\ UNCHANGED <<report_in, clock>>

RenderNext ==
    /\ \/ Tick
       \/ WriteReport
    /\ UNCHANGED <<webVars, managerVars, authVars, callerVars>>
    /\ UNCHANGED <<regionVars, pathVars, opVars, idx, cliVars>>

RenderSpec == RenderInit /\ [][RenderNext]_vars

\* C23 (as stated): the documents rendered from the same result list, title
\* and arguments are identical, in HTML as in JSON.
C23_RenderingIsPure ==
    \A i, j \in DOMAIN report_out :
        report_out[i].content = report_out[j].content


\* the HTML documents written so far
HtmlDocuments ==
    {report_out[i].content : i \in {j \in DOMAIN report_out :
                                       report_out[j].content.format = "html"}}
\* position i of the palette, counted from 0
PaletteAt(i) == colors[(i % 8) + 1]

\* C24: in the HTML report the series at position i of a result gets
\* palette[i mod 8] of the 8-entry palette as border colour (opaque) and as
\* background colour (alpha 0.1), whatever its label, its values and the
\* index of its chart; positions i and i + 8 get the same colour.
C24_PaletteIsCyclic ==
    /\ Len(colors) = 8
    /\ \A doc \in HtmlDocuments :
         \A k \in DOMAIN doc.charts :
           LET datasets == doc.charts[k].datasets IN
           /\ Len(datasets) = Len(report_in.results[k].metric_data)
           /\ \A s \in DOMAIN datasets :
                /\ datasets[s].borderColor = <<"rgba(", PaletteAt(s - 1), "1.0", ")">>
                /\ datasets[s].backgroundColor = <<"rgba(", PaletteAt(s - 1), "0.1", ")">>
                /\ s + 8 \in DOMAIN datasets =>
                      datasets[s + 8].borderColor = datasets[s].borderColor

\* a report of two charts was rendered: the first has nine series, the ninth
\* coloured as the first; the second chart's first series, with another label
\* and other values, has that colour too
C24_Witness ==
    \E doc \in HtmlDocuments :
        /\ Len(doc.charts) = 2
        /\ Len(doc.charts[1].datasets) = 9
        /\ doc.charts[1].datasets[9].borderColor = doc.charts[1].datasets[1].borderColor
        /\ doc.charts[1].datasets[8].borderColor # doc.charts[1].datasets[1].borderColor
        /\ Len(doc.charts[2].datasets) = 1
        /\ doc.charts[2].datasets[1].label # doc.charts[1].datasets[1].label
        /\ doc.charts[2].datasets[1].data # doc.charts[1].datasets[1].data
        /\ doc.charts[2].datasets[1].borderColor = doc.charts[1].datasets[1].borderColor


\* the JSON documents written so far
JsonDocuments ==
    {report_out[i].content : i \in {j \in DOMAIN report_out :
                                       report_out[j].content.format = "json"}}

WithJsonExtension(path) == SubSeq(path, 1, Len(path) - 1) \o <<".json">>

\* C30 (as stated): in JSON mode a path ending in '.html' is written with
\* only that trailing extension changed to '.json', and any other path is
\* used unchanged.
C30_OnlyTheExtensionChanges ==
    \A i \in DOMAIN report_out :
        LET given == report_in.args.output IN
        report_in.args.json =>
            report_out[i].path =
                IF EndsWith(given, ".html") THEN WithJsonExtension(given)
                ELSE given

-----------------------------------------------------------------------------
(* Tenancy resolution: OCIMonitoringClient._get_tenancy_id *)

\* how _get_tenancy_id ends
TenancyFound(tenancy_id) == OpReturned(tenancy_id)
ValueError == OpRaised("ValueError")

\* the fault: under resource principal the compartment marker is returned
get_tenancy_id_FromMarker(config, type, signer, env) ==
    IF config.tenancy # Absent THEN TenancyFound(config.tenancy)
    ELSE IF type = INSTANCE_PRINCIPAL /\ signer.tenancy_id # Absent
    THEN TenancyFound(signer.tenancy_id)
    ELSE IF type = INSTANCE_PRINCIPAL /\ Truthy(EnvGet(env, "OCI_TENANCY", None))
    THEN TenancyFound(env["OCI_TENANCY"])
    ELSE IF /\ type = RESOURCE_PRINCIPAL
            /\ Truthy(EnvGet(env, "OCI_RESOURCE_PRINCIPAL_COMPARTMENT_OCID", None))
    THEN TenancyFound(env["OCI_RESOURCE_PRINCIPAL_COMPARTMENT_OCID"])
    ELSE IF Truthy(EnvGet(env, "OCI_TENANCY", None))
    THEN TenancyFound(env["OCI_TENANCY"])
    ELSE IF Truthy(EnvGet(env, "OCI_CLI_TENANCY", None))
    THEN TenancyFound(env["OCI_CLI_TENANCY"])
    ELSE ValueError

\* lines 172-210: _get_tenancy_id; the resource principal branch (193-199)
\* reads its marker and does nothing with it
get_tenancy_id(config, type, signer, env) ==
    IF config.tenancy # Absent THEN TenancyFound(config.tenancy)
    ELSE IF type = INSTANCE_PRINCIPAL /\ signer.tenancy_id # Absent
    THEN TenancyFound(signer.tenancy_id)
    ELSE IF type = INSTANCE_PRINCIPAL /\ Truthy(EnvGet(env, "OCI_TENANCY", None))
    THEN TenancyFound(env["OCI_TENANCY"])
    ELSE IF Truthy(EnvGet(env, "OCI_TENANCY", None))
    THEN TenancyFound(env["OCI_TENANCY"])
    ELSE IF Truthy(EnvGet(env, "OCI_CLI_TENANCY", None))
    THEN TenancyFound(env["OCI_CLI_TENANCY"])
    ELSE ValueError

\* the environment variables _get_tenancy_id reads
TenancyEnvironments ==
    [OCI_TENANCY : {Absent, "", "ocid1.tenancy.oci"},
     OCI_CLI_TENANCY : {Absent, "", "ocid1.tenancy.cli"},
     OCI_RESOURCE_PRINCIPAL_COMPARTMENT_OCID : {Absent, "ocid1.compartment.fn"}]

\* what get_signer handed to __init__: the principals' config holds the
\* region only (lines 79, 85); a profile of the config file may lack tenancy
SignerResults(type) ==
    IF type = INSTANCE_PRINCIPAL
    THEN {Returned([region |-> "us-ashburn-1", tenancy |-> Absent],
                   [kind |-> "InstancePrincipalsSecurityTokenSigner",
                    tenancy_id |-> t]) : t \in {Absent, "ocid1.tenancy.signer"}}
    ELSE IF type = RESOURCE_PRINCIPAL
    THEN {Returned([region |-> "us-ashburn-1", tenancy |-> Absent],
                   [kind |-> "ResourcePrincipalsSigner", tenancy_id |-> Absent])}
    ELSE {Returned([region |-> "us-ashburn-1", tenancy |-> t],
                   [kind |-> IF type = SECURITY_TOKEN THEN "SecurityTokenSigner"
                             ELSE None,
                    tenancy_id |-> Absent]) : t \in {Absent, "ocid1.tenancy"}}

TenancyInit ==
    /\ environ \in TenancyEnvironments
    /\ disk = NoDisk
    /\ auth_type \in {CONFIG_FILE, INSTANCE_PRINCIPAL, RESOURCE_PRINCIPAL,
                      SECURITY_TOKEN}
    /\ signer_out \in SignerResults(auth_type)
    /\ provider_data = None
    /\ op = NoOp
    /\ IdleManager
    /\ IdleWeb
    /\ IdleRegions /\ IdlePaths /\ idx = 0 /\ IdleCli /\ IdleRender

\* line 169: self.tenancy_id = self._get_tenancy_id()
GetTenancyId ==
    /\ op = NoOp
    /\ op' = [name |-> "_get_tenancy_id", calls |-> <<>>,
              outcome |-> get_tenancy_id(signer_out.config, auth_type,
                                         signer_out.signer, environ)]
    /\ UNCHANGED <<provider_data, authVars>>
    /\ UNCHANGED <<webVars, managerVars, callerVars>>
    /\ UNCHANGED <<regionVars, pathVars, idx, cliVars, renderVars>>

TenancyNext == GetTenancyId

TenancySpec == TenancyInit /\ [][TenancyNext]_vars

\* the sources of a tenancy id, in the order of the claim
TenancySources ==
    << [value |-> signer_out.config.tenancy,
        available |-> signer_out.config.tenancy # Absent] >>
    \o (IF auth_type = INSTANCE_PRINCIPAL
        THEN << [value |-> signer_out.signer.tenancy_id,
                 available |-> signer_out.signer.tenancy_id # Absent],
                [value |-> environ["OCI_TENANCY"],
                 available |-> environ["OCI_TENANCY"] \notin {Absent, ""}] >>
        ELSE <<>>)
    \o << [value |-> environ["OCI_TENANCY"],
           available |-> environ["OCI_TENANCY"] \notin {Absent, ""}],
          [value |-> environ["OCI_CLI_TENANCY"],
           available |-> environ["OCI_CLI_TENANCY"] \notin {Absent, ""}] >>
AvailableSources == {i \in DOMAIN TenancySources : TenancySources[i].available}
FirstAvailable == CHOOSE i \in AvailableSources : \A j \in AvailableSources : i <= j
TenancyResolved == op # NoOp

-----------------------------------------------------------------------------
(* Properties of the queries of a CLI report run *)

\* the query strings of the run, from the command line: every --mql as
\* given, then one per --metric
QueryCount == args.mql_queries + args.metrics
IsMetricQuery(k) == k > args.mql_queries
\* the query_metrics calls of the trace, in order
QueryCalls == SelectSeq(cli_trace, LAMBDA e : e.op = "query_metrics")
\* the run has reached the query loop
ReportRun == Accepted /\ (cli_pc = "queries" \/ CliCalled("write"))

\* C27: a report run executes one query per --mql and one per --metric, the
\* --mql queries first, each group in the given order; results holds one
\* entry per executed query in that order; a query that raised leaves an
\* entry with its query string, its namespace, an error marker and an empty
\* metric_data, and the later queries and the write still happen.
C27_OneEntryPerQuery ==
    ReportRun =>
        /\ Len(QueryCalls) = Len(cli_results)
        /\ Len(cli_results) <= QueryCount
        /\ \A k \in DOMAIN cli_results :
             /\ k <= args.mql_queries => QueryCalls[k].query = MqlArgs[k]
             /\ k > args.mql_queries =>
                   /\ QueryCalls[k].query[1] = MetricArgs[k - args.mql_queries]
                   /\ QueryCalls[k].query \notin Range(MqlArgs)
             /\ QueryCalls[k].namespace = args.namespace
             /\ cli_results[k].query = QueryCalls[k].query
             /\ cli_results[k].namespace = args.namespace
             /\ QueryCalls[k].outcome = "raise" <=> "error" \in DOMAIN cli_results[k]
             /\ QueryCalls[k].outcome = "raise" =>
                   /\ DOMAIN cli_results[k] =
                         {"query", "namespace", "error", "metric_data"}
                   /\ cli_results[k].error # <<>>
                   /\ cli_results[k].metric_data = <<>>
        /\ CliCalled("write") => Len(cli_results) = QueryCount
        /\ (cli_pc = "queries" /\ Len(cli_results) < QueryCount) => ENABLED RunQuery
        /\ (cli_pc = "queries" /\ Len(cli_results) = QueryCount) => ENABLED WriteOutput

\* one --mql and one --metric: the --mql query ran first and raised, the
\* --metric query ran after it and the report was written
C27_Witness ==
    /\ ReportRun
    /\ args.mql_queries = 1 /\ args.metrics = 1
    /\ Len(cli_results) = 2
    /\ QueryCalls[1].outcome = "raise" /\ QueryCalls[2].outcome = "ok"
    /\ cli_results[1].query = MqlArgs[1]
    /\ output_file # {}
    /\ exit_status = 0

\* C29: build_mql returns '<metric>[<interval>]', then
\* '{resourceGroup="<resource_group>"}' exactly when resource_group is
\* non-empty, then '.groupBy(<group_by>)' exactly when group_by is non-empty,
\* then '.<stat>()' with percentile(0.5), (0.9), (0.95), (0.99) for p50, p90,
\* p95, p99 and the statistic itself otherwise.
C29_BuildMql ==
    ReportRun =>
        \A k \in DOMAIN cli_results :
            IsMetricQuery(k) =>
                LET q == cli_results[k].query
                    filtered == args.resource_group \notin {None, ""}
                    grouped == args.group_by \notin {None, ""}
                    g == IF filtered THEN 8 ELSE 5
                    n == 4 + (IF filtered THEN 3 ELSE 0) + (IF grouped THEN 3 ELSE 0)
                    stat == IF args.statistic = "p50" THEN "percentile(0.5)"
                            ELSE IF args.statistic = "p90" THEN "percentile(0.9)"
                            ELSE IF args.statistic = "p95" THEN "percentile(0.95)"
                            ELSE IF args.statistic = "p99" THEN "percentile(0.99)"
                            ELSE args.statistic
                IN
                /\ Len(q) = n + 3
                /\ SubSeq(q, 1, 4) =
                      <<MetricArgs[k - args.mql_queries], "[", args.interval, "]">>
                /\ filtered =>
                      SubSeq(q, 5, 7) =
                         <<"{resourceGroup=\"", args.resource_group, "\"}">>
                /\ grouped => SubSeq(q, g, g + 2) = <<".groupBy(", args.group_by, ")">>
                /\ SubSeq(q, n + 1, n + 3) = <<".", stat, "()">>

\* a query built with a resource group, a grouping and a percentile
C29_Witness ==
    /\ ReportRun
    /\ args.metrics = 1 /\ args.mql_queries = 0
    /\ Len(cli_results) = 1
    /\ cli_results[1].query =
          <<"CpuUtilization", "[", "5m", "]", "{resourceGroup=\"", "frontend",
            "\"}", ".groupBy(", "resourceId", ")", ".", "percentile(0.95)", "()">>

-----------------------------------------------------------------------------
(* Failed constructions in the region client manager *)

\* the last get_client call made, after a step that made one
LastCall == calls'[Len(calls')]
\* the last call made before it for the same region, or 0
PreviousCallFor(region) ==
    LET same == {h \in 1..Len(calls) : RegionOfCall(calls[h]) = region} IN
    IF same = {} THEN 0 ELSE CHOOSE h \in same : \A g \in same : g <= h

\* C28: a get_client whose construction raises leaves the client map as it
\* was, with no entry for the region; the next get_client for that region
\* constructs again, and may succeed.
C28_FailureIsNotCached ==
    [][Len(calls') > Len(calls) =>
          LET region == RegionOfCall(LastCall)
              before == PreviousCallFor(region)
          IN
          /\ LastCall.outcome = "raise" =>
                /\ clients' = clients
                /\ region \notin DOMAIN clients'
          /\ (before # 0 /\ calls[before].outcome = "raise") =>
                /\ LastCall.outcome \in {"created", "raise"}
                /\ LastCall.outcome = "created" =>
                      /\ region \in DOMAIN clients'
                      /\ clients'[region] = LastCall.client
                      /\ LastCall.client # NoClient
      ]_vars

\* a region whose construction failed twice and then succeeded
C28_Witness ==
    /\ Len(calls) >= 3
    /\ calls[1].arg = "us-phoenix-1" /\ calls[1].outcome = "raise"
    /\ calls[2].arg = "us-phoenix-1" /\ calls[2].outcome = "raise"
    /\ calls[3].arg = "us-phoenix-1" /\ calls[3].outcome = "created"
    /\ "us-phoenix-1" \in DOMAIN clients

====
